---- MODULE Spec2Model ----
(***************************************************************************)
(* Tool handlers of the AgFin AI service (src/ai-service/src/tools) run    *)
(* against the shared Store.  Every handler is an async function; each     *)
(* `await db_client.pool.*` statement is one atomic step, and handlers of  *)
(* different sessions interleave between statements.                       *)
(*                                                                         *)
(* The Store is the logical data model the SQL statements address:         *)
(*   applications, documents, module_data, audit_trail.                    *)
(* The handlers name the same logical column differently                   *)
(* (field_name/field_id, field_value/value, data_source/source,            *)
(* ocr_status/extraction_status, module_name/module_number); the model     *)
(* keeps one attribute per logical column.                                 *)
(***************************************************************************)
EXTENDS Integers, Sequences, FiniteSets, TLC

\* ---------------------------------------------------------------- bounds
\* total number of tool invocations in one behaviour
MaxCalls == 2

\* ---------------------------------------------------------------- domains
Sessions == {"s1", "s2"}
\* "none" stands for Python None / a missing key
None == "none"
UserIds == {"u1", "u2"}
AppIds == {"a1", "a2"}
DocIds == {"d1"}
FieldIds == {"f1", "f2"}
FieldValues == {"v1", "v2"}
Reasons == {"r1"}
DocArgs == {None, "d1"}
FieldIdLists == {<<>>, <<"f1", "f2">>}
ModuleNumberInputs == {0, 1}

MODULE_NAMES ==
    (1 :> "financial") @@ (2 :> "compliance") @@ (3 :> "operations")
      @@ (4 :> "sustainability") @@ (5 :> "risk")

required_modules == {1, 2, 3, 4, 5}

TerminalStatuses == {"approved", "rejected"}

\* ---------------------------------------------------------------- values
\* A stored field value is a JSON scalar or a JSON object carrying the
\* audit keys; "none" marks an absent key.
Scalar(v) ==
    [obj |-> FALSE, val |-> v, flagged |-> FALSE, reason |-> None, at |-> None]

NoValue == Scalar(None)

\* value->>'_audit_flagged' = 'true' on an object value
IsFlagged(v) == v.obj /\ v.flagged

\* the CASE expression of request_audit's UPDATE module_data
AuditFlagValue(v, reason) ==
    IF v.obj
    THEN [v EXCEPT !.flagged = TRUE]
    ELSE [obj |-> TRUE, val |-> v.val, flagged |-> TRUE,
          reason |-> reason, at |-> "ts"]

\* the CASE expression of request_audit's UPDATE documents
AuditDocStatus(st) == IF st = "processed" THEN "audited" ELSE st

\* ---------------------------------------------------------------- state
VARIABLES
    applications,   \* id -> [user_id, status, notes, updated_at]
    documents,      \* id -> [application_id, extraction_status,
                    \*        extraction_metadata, needs_audit]
    module_data,    \* sequence of rows; the row id is the index
    audit_trail,    \* sequence of entries, append only
    call,           \* session -> the handler invocation in flight
    result,         \* payload returned by the step just taken (NoResult if none)
    ncalls,         \* number of invocations so far
    last_update,    \* the update made by the latest return, NoUpdate if none
    full_inputs,    \* whether invocations draw from the full input sets
    tools,          \* ToolRegistry._tools: the registered names, in key order
    formatted,      \* what execute_tool returned in the step just taken
    raised,         \* the exception the step just taken raised, None if none
    registration,   \* the arguments of the register_tool call just made
    pending,        \* the HTTP requests that have not arrived yet
    req,            \* request -> the chat or stream request being served
    bot_messages,   \* agfin_ai_bot_messages: the rows in storage order
    history_call    \* the call of the History Manager made, if any

vars == <<applications, documents, module_data, audit_trail, call, result,
          ncalls, last_update, full_inputs, tools, formatted, raised,
          registration, pending, req, bot_messages, history_call>>
store == <<applications, documents, module_data, audit_trail>>

\* (user_id, application_id) pairs carried by session_context; the user id
\* is any text the request carries, the text "None" with the full inputs
SessionContexts ==
    { [user_id |-> "u1", application_id |-> "a1"],
      [user_id |-> "u2", application_id |-> "a1"],
      [user_id |-> None, application_id |-> None] }
    \cup (IF full_inputs
          THEN {[user_id |-> "None", application_id |-> "a1"]} ELSE {})

\* ---------------------------------------------------------------- helpers
\* locals of a handler invocation; a local that is no longer read is reset.
\* Four entries describe the Store at invocation rather than a local:
\* confirmed, locked_at_start, trail_at_start (the length of audit_trail) and
\* doc_status_at_start (the status of the document named by document_id)
IdleCall ==
    [tool |-> None, pc |-> "idle", target |-> None, user_id |-> None,
     module_number |-> 0, field_id |-> None, value |-> None,
     document_id |-> None, field_ids |-> <<>>, todo |-> <<>>, reason |-> None,
     row |-> 0, old_value |-> NoValue,
     failures |-> {}, flagged_fields_count |-> 0, flagged_document |-> FALSE,
     confirmed |-> FALSE, locked_at_start |-> FALSE,
     trail_at_start |-> 0, doc_status_at_start |-> None]

\* key and value of a successful update_module call
NoUpdate == [target |-> None, module_number |-> 0, field_id |-> None,
             value |-> None]

\* the payload a handler returns (keys that a payload lacks hold defaults).
\* Some entries describe the call rather than the payload: caller is
\* session_context.user_id, confirmed the certification_confirmed argument,
\* locked_at_start tells whether the target was terminal at invocation,
\* previous is last_update before the return, and certification_type,
\* farmer_email and farmer_name are the arguments of create_application,
\* kept with the full inputs. action_required is the key of that name in
\* the payload of extract_fields
NoResult ==
    [session |-> None, tool |-> None, error |-> None, success |-> FALSE, target |-> None,
     field_id |-> None, module_number |-> 0,
     old_value |-> NoValue, new_value |-> None, data_source |-> None,
     failures |-> {}, flagged_fields_count |-> 0, flagged_document |-> FALSE,
     status |-> None, percentage |-> 0,
     caller |-> None, confirmed |-> FALSE, locked_at_start |-> FALSE, previous |-> NoUpdate,
     certification_type |-> None, farmer_email |-> None, farmer_name |-> None,
     action_required |-> None]

\* target_application_id = application_id or session_context.application_id
ResolveTarget(application_id, ctx) ==
    IF application_id # None THEN application_id ELSE ctx.application_id

\* str(): an id is its own text, the text of a NULL column is "None"
Str(x) == IF x = None THEN "None" ELSE x

\* `if user_id and str(app_row["user_id"]) != user_id`
Unauthorized(user_id, owner) ==
    user_id \notin {None, ""} /\ Str(owner) # user_id

Exists(app) == app \in DOMAIN applications

IsLocked(app) == Exists(app) /\ applications[app].status \in TerminalStatuses

Busy(s) == call[s].pc # "idle"

\* a new request is taken by a free session; free sessions are
\* interchangeable, so s2 takes one only while s1 is occupied
CanInvoke(s) ==
    /\ ~Busy(s)
    /\ ncalls < MaxCalls
    /\ s = "s2" => Busy("s1")

\* the names registered by the constructor, in registration order
RegisteredAtStart ==
    <<"query_application", "create_application", "upload_document",
      "extract_fields", "update_module", "request_audit",
      "certify_application", "show_artifact">>

\* no execute_tool call returned in the step. Beside the keys of the
\* returned dict (success, error type, available_tools, tool_name, and
\* whether it has a timestamp and an execution_time) the record notes the
\* handler that was fetched and what it did: returns, returns_error (a dict
\* with an "error" key) or the class of the exception it raised
NoEnvelope ==
    [success |-> FALSE, error_type |-> None, available_tools |-> <<>>,
     tool_name |-> None, timestamp |-> FALSE, execution_time |-> FALSE,
     handler |-> None, behaviour |-> None]

\* formatted_result: success is the absence of an "error" key in the dict
\* the handler returned
Formatted(tool_name, handler, has_error) ==
    [success |-> ~has_error, error_type |-> None, available_tools |-> <<>>,
     tool_name |-> tool_name, timestamp |-> TRUE, execution_time |-> TRUE,
     handler |-> handler,
     behaviour |-> IF has_error THEN "returns_error" ELSE "returns"]

\* the envelope of a built-in handler's payload
Format(payload) == Formatted(payload.tool, payload.tool, payload.error # None)

\* the locals of a chat or stream request. messages, last_sent, stops and
\* executed belong to execute_with_tools: the accumulated message list, the
\* message list of the latest LLM call, the stop reasons received and the
\* ids of the tool-use blocks handed to _execute_tool. outcome is how the
\* model interaction ended, response the content of the final reply,
\* status the HTTP status of the answer (0 while there is none), events
\* the server-sent events yielded, escaped whether an exception left the
\* generator. history holds the positions, in the session's stored
\* sequence, of the rows get_session_messages returned, context those of
\* the rows whose text is part of the first message sent to the LLM
NoRequest ==
    [pc |-> "absent", endpoint |-> None, with_tools |-> FALSE,
     session_id |-> None, history |-> <<>>, context |-> <<>>,
     messages |-> <<>>, last_sent |-> <<>>,
     stops |-> <<>>, executed |-> <<>>, outcome |-> None,
     response |-> <<>>, status |-> 0, tool_calls |-> <<>>,
     events |-> <<>>, chunks |-> 0, escaped |-> FALSE]

Requests == {"r1", "r2"}

\* the arguments and the outcome of a call of the History Manager:
\* max_tokens is the attribute of the manager, output what the call returned,
\* raised whether it raised ValueError
NoHistoryCall ==
    [op |-> None, messages |-> <<>>, max_tokens |-> 0, keep |-> 0,
     new_user_message |-> None, auto_truncate |-> FALSE,
     output |-> <<>>, raised |-> FALSE]

\* the tools are called directly: no HTTP request is served and no history
\* is prepared
NoRequests ==
    /\ pending = {}
    /\ req = <<>>
    /\ bot_messages = <<>>
    /\ history_call = NoHistoryCall

\* no register_tool call was made in the step
NoRegistration ==
    [name |-> None, handler |-> None,
     definition |-> [name |-> None, input_schema |-> FALSE]]

\* the keys of _tools, in order
Keys(t) == [i \in DOMAIN t |-> t[i].name]

\* the registry after construction: every built-in name with its own
\* handler function, which the model names after the tool
NewRegistry ==
    /\ tools = [i \in DOMAIN RegisteredAtStart |->
                  [name |-> RegisteredAtStart[i],
                   handler |-> RegisteredAtStart[i]]]
    /\ formatted = NoEnvelope
    /\ raised = None
    /\ registration = NoRegistration

\* self._tools[tool_name]["handler"] is the built-in handler of the name
Routes(tool_name) ==
    \E i \in DOMAIN tools :
       tools[i].name = tool_name /\ tools[i].handler = tool_name

\* what a step of a tool handler leaves alone: the handler runs inside the
\* try block of execute_tool, registers nothing and lets no exception out
HandlerFrame ==
    /\ UNCHANGED <<full_inputs, tools, pending, req, bot_messages,
                   history_call>>
    /\ raised' = None
    /\ registration' = NoRegistration

\* a step that does not return publishes no payload
Continue ==
    /\ result' = NoResult
    /\ formatted' = NoEnvelope
    /\ UNCHANGED last_update
    /\ HandlerFrame

\* a handler is invoked with locals c, passes its first checks and suspends
Invoke(s, c, pc) ==
    /\ call' = [call EXCEPT ![s] = [c EXCEPT !.pc = pc]]
    /\ Continue

\* a handler returns: the payload is published and the call is over
Return(s, payload) ==
    /\ result' = [payload EXCEPT !.session = s, !.previous = last_update]
    /\ formatted' = Format(payload)
    /\ call' = [call EXCEPT ![s] = IdleCall]
    /\ last_update' =
         IF payload.tool = "update_module" /\ payload.success
         THEN [target |-> payload.target,
               module_number |-> payload.module_number,
               field_id |-> payload.field_id, value |-> payload.new_value]
         ELSE NoUpdate
    /\ HandlerFrame

ErrorPayload(c, code) ==
    [NoResult EXCEPT !.tool = c.tool, !.error = code, !.target = c.target,
                     !.caller = c.user_id,
                     !.module_number = c.module_number,
                     !.confirmed = c.confirmed,
                     !.locked_at_start = c.locked_at_start]

Error(s, code) == Return(s, ErrorPayload(call[s], code))

\* a handler fails a check before its second Store statement and returns
\* the error payload
RejectWith(s, payload) ==
    /\ result' = [payload EXCEPT !.session = s]
    /\ formatted' = Format(payload)
    /\ call' = [call EXCEPT ![s] = IdleCall]
    /\ last_update' = NoUpdate
    /\ HandlerFrame

Reject(s, c, code) == RejectWith(s, ErrorPayload(c, code))

RowIds == 1..Len(module_data)

\* UPDATE applications SET updated_at = NOW() WHERE id = $1
BumpUpdatedAt(app) ==
    IF Exists(app)
    THEN [applications EXCEPT ![app].updated_at = @ + 1]
    ELSE applications

\* ---------------------------------------------------------------- Init
InitStatuses == {"draft", "rejected"}
InitDocStatuses == {"pending", "completed", "processed", "failed", "error"}

\* rows written by the extraction pipeline before the conversation starts
ExtractedRow(m) ==
    [application_id |-> "a1", module_number |-> m,
     field_id |-> IF m = 1 THEN "f1" ELSE "x",
     value |-> Scalar("v1"), data_source |-> "ocr_extracted"]

\* an application with two modules missing and a complete one; the sampled
\* rejected application is complete
InitModuleData(status) ==
    IF status = "rejected"
    THEN { [m \in 1..5 |-> ExtractedRow(m)] }
    ELSE { [m \in 1..3 |-> ExtractedRow(m)],
           [m \in 1..5 |-> ExtractedRow(m)] }

Init ==
    /\ \E st \in InitStatuses :
          /\ applications = ("a1" :> [user_id |-> "u1", status |-> st,
                                      notes |-> 0, updated_at |-> 0])
          /\ module_data \in InitModuleData(st)
    /\ \/ documents = <<>>
       \/ \E st \in InitDocStatuses :
             documents = ("d1" :> [application_id |-> "a1",
                                   extraction_status |-> st,
                                   extraction_metadata |-> st # "pending",
                                   needs_audit |-> FALSE])
    /\ audit_trail = <<>>
    /\ call = [s \in Sessions |-> IdleCall]
    /\ result = NoResult
    /\ ncalls = 0
    /\ last_update = NoUpdate
    /\ full_inputs = FALSE
    /\ NewRegistry
    /\ NoRequests

\* ---------------------------------------------------------------- update_module
\* variant: the lock check names a status the application never takes
update_module_locked_m(status) == status \in {"certified", "rejected"}

\* lines 160-161: `app_row["status"] in ["approved", "rejected"]`
update_module_locked(status) == status \in {"approved", "rejected"}

\* the error code of the checks of lines 113-165, or None when all pass
update_module_check(module_number, target, user_id) ==
    IF module_number \notin DOMAIN MODULE_NAMES THEN "invalid_module"
    ELSE IF target = None THEN "application_id_required"
    ELSE IF ~Exists(target) THEN "application_not_found"
    ELSE IF Unauthorized(user_id, applications[target].user_id)
    THEN "unauthorized"
    ELSE IF update_module_locked(applications[target].status)
    THEN "application_locked"
    ELSE None

\* lines 113-165: argument validation and target resolution, then the first
\* Store statement (SELECT the application) with the existence, owner and
\* lock checks that follow it
update_module_app(s) ==
    /\ CanInvoke(s)
    /\ Routes("update_module")
    /\ ncalls' = ncalls + 1
    /\ UNCHANGED store
    /\ \E module_number \in ModuleNumberInputs, field_id \in FieldIds,
          value \in FieldValues, application_id \in AppIds \cup {None},
          ctx \in SessionContexts :
         LET target == ResolveTarget(application_id, ctx)
             c == [IdleCall EXCEPT !.tool = "update_module",
                                   !.target = target,
                                   !.user_id = ctx.user_id,
                                   !.module_number = module_number,
                                   !.field_id = field_id,
                                   !.value = value,
                                   !.locked_at_start = IsLocked(target)]
             code == update_module_check(module_number, target, ctx.user_id)
         IN  IF code # None THEN Reject(s, c, code)
             ELSE Invoke(s, c, "um_existing")

\* rows matching (application_id, module_name, field_name)
MatchingRows(app, module_number, field_id) ==
    { i \in RowIds : /\ module_data[i].application_id = app
                     /\ module_data[i].module_number = module_number
                     /\ module_data[i].field_id = field_id }

\* lines 167-188: SELECT the existing row; fetchrow returns any matching row
update_module_existing(s) ==
    /\ call[s].pc = "um_existing"
    /\ UNCHANGED <<store, ncalls>>
    /\ Continue
    /\ LET c == call[s]
           rows == MatchingRows(c.target, c.module_number, c.field_id)
       IN  IF rows = {}
           THEN call' = [call EXCEPT ![s].pc = "um_write",
                                     ![s].row = 0,
                                     ![s].old_value = NoValue]
           ELSE \E i \in rows :
                  call' = [call EXCEPT ![s].pc = "um_write",
                                       ![s].row = i,
                                       ![s].old_value = module_data[i].value]

\* variant: the source is never reclassified
DataSource_m(row) == "proxy_entered"

\* `data_source` local: proxy_edited when a row was found
DataSource(row) == IF row # 0 THEN "proxy_edited" ELSE "proxy_entered"

\* lines 185-229: UPDATE the row found, or INSERT a new one
update_module_write(s) ==
    /\ call[s].pc = "um_write"
    /\ UNCHANGED <<applications, documents, audit_trail, ncalls>>
    /\ Continue
    /\ LET c == call[s] IN
       /\ module_data' =
            IF c.row # 0
            THEN [module_data EXCEPT ![c.row].value = Scalar(c.value),
                                     ![c.row].data_source = DataSource(c.row)]
            ELSE Append(module_data,
                        [application_id |-> c.target,
                         module_number |-> c.module_number,
                         field_id |-> c.field_id,
                         value |-> Scalar(c.value),
                         data_source |-> DataSource(c.row)])
       /\ call' = [call EXCEPT ![s].pc = "um_bump"]

\* lines 231-246: bump the application's updated_at and return success
update_module_bump(s) ==
    /\ call[s].pc = "um_bump"
    /\ UNCHANGED <<documents, module_data, audit_trail, ncalls>>
    /\ LET c == call[s] IN
       /\ applications' = BumpUpdatedAt(c.target)
       /\ Return(s, [NoResult EXCEPT !.tool = "update_module",
                                     !.success = TRUE,
                                     !.caller = c.user_id,
                                     !.target = c.target,
                                     !.field_id = c.field_id,
                                     !.module_number = c.module_number,
                                     !.old_value = c.old_value,
                                     !.new_value = c.value,
                                     !.data_source = DataSource(c.row),
                                     !.locked_at_start = c.locked_at_start])

update_module(s) ==
    \/ update_module_app(s)
    \/ update_module_existing(s)
    \/ update_module_write(s)
    \/ update_module_bump(s)

\* ---------------------------------------------------------------- request_audit
\* the statement that follows the application check, the document step or a
\* field step: next field SELECT, else the audit-trail INSERT, else the bump
AfterFields(todo, user_id) ==
    IF todo # <<>> THEN "ra_field_sel"
    ELSE IF user_id # None THEN "ra_trail"
    ELSE "ra_bump"

\* the `reason` arguments tried: the empty string only with the full inputs
ReasonInputs == IF full_inputs THEN Reasons \cup {""} ELSE Reasons

\* extraction_status of a document, None when there is no such document
DocStatus(document_id) ==
    IF document_id \in DOMAIN documents
    THEN documents[document_id].extraction_status ELSE None

\* variant: the owner check is left out
request_audit_check_m(target, document_id, field_ids, user_id) ==
    IF target = None THEN "application_id_required"
    ELSE IF document_id = None /\ field_ids = <<>> THEN "no_targets_specified"
    ELSE IF ~Exists(target) THEN "application_not_found"
    ELSE None

\* lines 98-141: target resolution, target validation, SELECT the application
\* with the existence and owner checks (the handler has no status check);
\* the error code, or None when all pass
request_audit_check(target, document_id, field_ids, user_id) ==
    IF target = None THEN "application_id_required"
    ELSE IF document_id = None /\ field_ids = <<>> THEN "no_targets_specified"
    ELSE IF ~Exists(target) THEN "application_not_found"
    ELSE IF Unauthorized(user_id, applications[target].user_id)
    THEN "unauthorized"
    ELSE None

request_audit_app(s) ==
    /\ CanInvoke(s)
    /\ Routes("request_audit")
    /\ ncalls' = ncalls + 1
    /\ UNCHANGED store
    /\ \E reason \in ReasonInputs, application_id \in AppIds \cup {None},
          document_id \in DocArgs, field_ids \in FieldIdLists,
          ctx \in SessionContexts :
         LET target == ResolveTarget(application_id, ctx)
             c == [IdleCall EXCEPT !.tool = "request_audit",
                                   !.target = target,
                                   !.user_id = ctx.user_id,
                                   !.document_id = document_id,
                                   !.field_ids = field_ids,
                                   !.todo = field_ids,
                                   !.reason = reason,
                                   !.locked_at_start = IsLocked(target),
                                   !.trail_at_start = Len(audit_trail),
                                   !.doc_status_at_start =
                                      DocStatus(document_id)]
             code == request_audit_check(target, document_id, field_ids,
                                         ctx.user_id)
         IN  IF code # None THEN Reject(s, c, code)
             ELSE Invoke(s, c, IF document_id # None THEN "ra_doc_sel"
                                ELSE AfterFields(field_ids, ctx.user_id))

\* lines 148-161: SELECT the document WHERE id = $1 AND application_id = $2
request_audit_doc_sel(s) ==
    /\ call[s].pc = "ra_doc_sel"
    /\ UNCHANGED <<store, ncalls>>
    /\ LET c == call[s] IN
       IF /\ c.document_id \in DOMAIN documents
          /\ documents[c.document_id].application_id = c.target
       THEN /\ call' = [call EXCEPT ![s].pc = "ra_doc_upd"]
            /\ Continue
       ELSE Error(s, "document_not_found")

\* lines 163-197: UPDATE documents: needs_audit metadata and status escalation
request_audit_doc_upd(s) ==
    /\ call[s].pc = "ra_doc_upd"
    /\ UNCHANGED <<applications, module_data, audit_trail, ncalls>>
    /\ Continue
    /\ LET c == call[s] IN
       /\ documents' =
            IF c.document_id \in DOMAIN documents
            THEN [documents EXCEPT
                    ![c.document_id].needs_audit = TRUE,
                    ![c.document_id].extraction_status = AuditDocStatus(@)]
            ELSE documents
       /\ call' = [call EXCEPT ![s].pc = AfterFields(c.todo, c.user_id),
                               ![s].flagged_document = TRUE]

\* rows matching WHERE application_id = $1 AND field_id = $2
FieldRows(app, field_id) ==
    { i \in RowIds : /\ module_data[i].application_id = app
                     /\ module_data[i].field_id = field_id }

\* lines 201-210: SELECT the field row; fetchrow returns any matching row
request_audit_field_sel(s) ==
    /\ call[s].pc = "ra_field_sel"
    /\ UNCHANGED <<store, ncalls>>
    /\ Continue
    /\ LET c == call[s]
           rows == FieldRows(c.target, Head(c.todo))
       IN  IF rows = {}
           THEN call' = [call EXCEPT
                           ![s].todo = Tail(c.todo),
                           ![s].pc = AfterFields(Tail(c.todo), c.user_id)]
           ELSE \E i \in rows :
                  call' = [call EXCEPT ![s].row = i, ![s].pc = "ra_field_upd"]

\* lines 211-243: UPDATE module_data: merge the audit flag into the value
request_audit_field_upd(s) ==
    /\ call[s].pc = "ra_field_upd"
    /\ UNCHANGED <<applications, documents, audit_trail, ncalls>>
    /\ Continue
    /\ LET c == call[s] IN
       /\ module_data' =
            [module_data EXCEPT ![c.row].value = AuditFlagValue(@, c.reason)]
       /\ call' = [call EXCEPT
                     ![s].row = 0,
                     ![s].flagged_fields_count = @ + 1,
                     ![s].todo = Tail(c.todo),
                     ![s].pc = AfterFields(Tail(c.todo), c.user_id)]

\* lines 245-266: INSERT one audit_trail row when a caller id is known
request_audit_trail(s) ==
    /\ call[s].pc = "ra_trail"
    /\ UNCHANGED <<applications, documents, module_data, ncalls>>
    /\ Continue
    /\ LET c == call[s] IN
       /\ audit_trail' = Append(audit_trail,
                                [application_id |-> c.target,
                                 user_id |-> c.user_id,
                                 action |-> "audit_requested",
                                 field_id |-> c.field_ids,
                                 new_value |-> c.reason])
       /\ call' = [call EXCEPT ![s].pc = "ra_bump",
                               ![s].field_ids = <<>>, ![s].reason = None]

\* lines 268-281: bump the application's updated_at and return success
request_audit_bump(s) ==
    /\ call[s].pc = "ra_bump"
    /\ UNCHANGED <<documents, module_data, audit_trail, ncalls>>
    /\ LET c == call[s] IN
       /\ applications' = BumpUpdatedAt(c.target)
       /\ Return(s, [NoResult EXCEPT
                       !.tool = "request_audit",
                       !.success = TRUE,
                       !.caller = c.user_id,
                       !.target = c.target,
                       !.flagged_fields_count = c.flagged_fields_count,
                       !.flagged_document = c.flagged_document,
                       !.locked_at_start = c.locked_at_start])

request_audit(s) ==
    \/ request_audit_app(s)
    \/ request_audit_doc_sel(s)
    \/ request_audit_doc_upd(s)
    \/ request_audit_field_sel(s)
    \/ request_audit_field_upd(s)
    \/ request_audit_trail(s)
    \/ request_audit_bump(s)

\* ---------------------------------------------------------------- certify_application
\* documents of an application
DocsOf(app) == { d \in DOMAIN documents : documents[d].application_id = app }

\* Check 1 (lines 146-164): the statuses that fail the document check
DocFailures(app) ==
    { st \in {"pending", "processing", "error"} :
        \E d \in DocsOf(app) : documents[d].extraction_status = st }

\* Check 2 (lines 166-188): required modules without any row
missing_modules(app) ==
    { m \in required_modules :
        ~\E i \in RowIds : /\ module_data[i].application_id = app
                           /\ module_data[i].module_number = m }

\* variant: the flag is looked for on scalar values only
flagged_count_m(app) ==
    Cardinality({ i \in RowIds : /\ module_data[i].application_id = app
                                 /\ ~module_data[i].value.obj
                                 /\ module_data[i].value.flagged })

\* Check 3 (lines 190-205): number of rows whose value carries an active flag
flagged_count(app) ==
    Cardinality({ i \in RowIds : /\ module_data[i].application_id = app
                                 /\ IsFlagged(module_data[i].value) })

\* Check 4 (lines 207-217): number of documents
total_docs(app) == Cardinality(DocsOf(app))

\* variant: only approved counts as terminal
already_certified_m(status) == status = "approved"

\* lines 136-137: `app_row["status"] in ["approved", "rejected"]`
already_certified(status) == status \in {"approved", "rejected"}

\* variant: the confirmation is checked after the application was loaded
certify_application_check_m(certification_confirmed, target, user_id) ==
    IF target = None THEN "application_id_required"
    ELSE IF ~Exists(target) THEN "application_not_found"
    ELSE IF Unauthorized(user_id, applications[target].user_id)
    THEN "unauthorized"
    ELSE IF ~certification_confirmed THEN "confirmation_required"
    ELSE IF already_certified(applications[target].status)
    THEN "already_certified"
    ELSE None

\* the error code of the checks of lines 91-141, or None when all pass
certify_application_check(certification_confirmed, target, user_id) ==
    IF ~certification_confirmed THEN "confirmation_required"
    ELSE IF target = None THEN "application_id_required"
    ELSE IF ~Exists(target) THEN "application_not_found"
    ELSE IF Unauthorized(user_id, applications[target].user_id)
    THEN "unauthorized"
    ELSE IF already_certified(applications[target].status)
    THEN "already_certified"
    ELSE None

\* lines 91-141: confirmation, target resolution, SELECT the application with
\* the existence, owner and terminal-status checks
certify_application_app(s) ==
    /\ CanInvoke(s)
    /\ Routes("certify_application")
    /\ ncalls' = ncalls + 1
    /\ UNCHANGED store
    /\ \E certification_confirmed \in BOOLEAN,
          application_id \in AppIds \cup {None}, ctx \in SessionContexts :
         LET target == ResolveTarget(application_id, ctx)
             c == [IdleCall EXCEPT !.tool = "certify_application",
                                   !.target = target,
                                   !.user_id = ctx.user_id,
                                   !.confirmed = certification_confirmed,
                                   !.locked_at_start = IsLocked(target),
                                   !.trail_at_start = Len(audit_trail)]
             code == certify_application_check(certification_confirmed,
                                               target, ctx.user_id)
         IN  IF code # None THEN Reject(s, c, code)
             ELSE Invoke(s, c, "ca_docs")

\* variant: the handler returns as soon as the document check fails
certify_application_docs_m(s) ==
    /\ call[s].pc = "ca_docs"
    /\ UNCHANGED <<store, ncalls>>
    /\ IF DocFailures(call[s].target) # {}
       THEN Return(s, [ErrorPayload(call[s], "validation_failed") EXCEPT
                         !.failures = DocFailures(call[s].target)])
       ELSE /\ Continue
            /\ call' = [call EXCEPT ![s].pc = "ca_modules"]

\* lines 146-164: SELECT extraction_status, COUNT(*) ... GROUP BY
certify_application_docs(s) ==
    /\ call[s].pc = "ca_docs"
    /\ UNCHANGED <<store, ncalls>>
    /\ Continue
    /\ call' = [call EXCEPT ![s].pc = "ca_modules",
                            ![s].failures = @ \cup DocFailures(call[s].target)]

\* lines 166-188: SELECT DISTINCT module_number
certify_application_modules(s) ==
    /\ call[s].pc = "ca_modules"
    /\ UNCHANGED <<store, ncalls>>
    /\ Continue
    /\ call' = [call EXCEPT
                  ![s].pc = "ca_flagged",
                  ![s].failures =
                      IF missing_modules(call[s].target) # {}
                      THEN @ \cup {"missing_modules"} ELSE @]

\* lines 190-205: SELECT COUNT(*) of the flagged fields
certify_application_flagged(s) ==
    /\ call[s].pc = "ca_flagged"
    /\ UNCHANGED <<store, ncalls>>
    /\ Continue
    /\ call' = [call EXCEPT
                  ![s].pc = "ca_total",
                  ![s].failures =
                      IF flagged_count(call[s].target) > 0
                      THEN @ \cup {"flagged"} ELSE @]

\* lines 207-227: SELECT COUNT(*) of the documents, then return the
\* collected validation_failures if there is any
certify_application_total(s) ==
    /\ call[s].pc = "ca_total"
    /\ UNCHANGED <<store, ncalls>>
    /\ LET c == call[s]
           validation_failures ==
               IF total_docs(c.target) = 0
               THEN c.failures \cup {"no_documents"} ELSE c.failures
       IN  IF validation_failures # {}
           THEN Return(s, [ErrorPayload(c, "validation_failed") EXCEPT
                             !.failures = validation_failures,
                             !.status = IF Exists(c.target)
                                        THEN applications[c.target].status
                                        ELSE None])
           ELSE /\ call' = [call EXCEPT ![s].pc = "ca_update"]
                /\ Continue

CertifiedPayload(c) ==
    [NoResult EXCEPT !.tool = "certify_application", !.success = TRUE,
                     !.caller = c.user_id,
                     !.target = c.target, !.status = "approved",
                     !.locked_at_start = c.locked_at_start]

\* lines 229-247: UPDATE applications SET status = 'approved', notes, updated_at
\* (and lines 269-282, the return, when no caller id is known)
certify_application_update(s) ==
    /\ call[s].pc = "ca_update"
    /\ UNCHANGED <<documents, module_data, audit_trail, ncalls>>
    /\ LET c == call[s] IN
       /\ applications' =
            IF Exists(c.target)
            THEN [applications EXCEPT ![c.target].status = "approved",
                                      ![c.target].notes = @ + 1,
                                      ![c.target].updated_at = @ + 1]
            ELSE applications
       /\ IF c.user_id # None
          THEN /\ call' = [call EXCEPT ![s].pc = "ca_trail"]
               /\ Continue
          ELSE Return(s, CertifiedPayload(c))

\* lines 249-282: INSERT the audit_trail row and return success
certify_application_trail(s) ==
    /\ call[s].pc = "ca_trail"
    /\ UNCHANGED <<applications, documents, module_data, ncalls>>
    /\ LET c == call[s] IN
       /\ audit_trail' = Append(audit_trail,
                                [application_id |-> c.target,
                                 user_id |-> c.user_id,
                                 action |-> "application_certified",
                                 field_id |-> <<>>,
                                 new_value |-> "certified"])
       /\ Return(s, CertifiedPayload(c))

certify_application(s) ==
    \/ certify_application_app(s)
    \/ certify_application_docs(s)
    \/ certify_application_modules(s)
    \/ certify_application_flagged(s)
    \/ certify_application_total(s)
    \/ certify_application_update(s)
    \/ certify_application_trail(s)

\* ---------------------------------------------------------------- extract_fields
\* variant: only a completed or failed document stops a new OCR run
extract_fields_branch_m(ocr_status, extraction_metadata) ==
    IF ocr_status = "completed" /\ extraction_metadata THEN "cached"
    ELSE IF ocr_status = "failed" THEN "ocr_failed"
    ELSE IF ocr_status \in {"pending", "processing", None} THEN "trigger"
    ELSE "unknown_status"

\* lines 129-193: the branch taken on the OCR status; extraction_metadata
\* tells whether the column holds a non-empty object
extract_fields_branch(ocr_status, extraction_metadata) ==
    IF ocr_status = "completed" /\ extraction_metadata THEN "cached"
    ELSE IF ocr_status = "processing" THEN "processing"
    ELSE IF ocr_status = "failed" THEN "ocr_failed"
    ELSE IF ocr_status \in {"pending", None} THEN "trigger"
    ELSE "unknown_status"

\* lines 94-193: SELECT the document joined with its application, owner
\* check, then the branch on the OCR status
extract_fields_doc(s) ==
    /\ CanInvoke(s)
    /\ Routes("extract_fields")
    /\ ncalls' = ncalls + 1
    /\ UNCHANGED store
    /\ \E document_id \in DocIds, ctx \in SessionContexts :
         LET app == IF document_id \in DOMAIN documents
                    THEN documents[document_id].application_id ELSE None
             c == [IdleCall EXCEPT !.tool = "extract_fields",
                                   !.target = app,
                                   !.user_id = ctx.user_id,
                                   !.document_id = document_id,
                                   !.locked_at_start = IsLocked(app)]
             branch == extract_fields_branch(
                           documents[document_id].extraction_status,
                           documents[document_id].extraction_metadata)
         IN  IF document_id \notin DOMAIN documents \/ ~Exists(app)
             THEN Reject(s, c, "document_not_found")
             ELSE IF Unauthorized(ctx.user_id, applications[app].user_id)
             THEN Reject(s, c, "unauthorized")
             ELSE IF branch = "cached"
             THEN Return(s, [NoResult EXCEPT !.tool = "extract_fields",
                                             !.caller = ctx.user_id,
                                             !.target = app,
                                             !.status = "completed"])
             ELSE IF branch = "processing"
             THEN Return(s, [NoResult EXCEPT !.tool = "extract_fields",
                                             !.caller = ctx.user_id,
                                             !.target = app,
                                             !.status = "processing"])
             ELSE IF branch = "trigger"
             THEN Invoke(s, c, "ef_update")
             ELSE Reject(s, c, branch)

\* lines 171-188: UPDATE documents SET ocr_status = 'processing', and the
\* payload that asks the caller to poll
extract_fields_update(s) ==
    /\ call[s].pc = "ef_update"
    /\ UNCHANGED <<applications, module_data, audit_trail, ncalls>>
    /\ LET c == call[s] IN
       /\ documents' =
            IF c.document_id \in DOMAIN documents
            THEN [documents EXCEPT
                    ![c.document_id].extraction_status = "processing"]
            ELSE documents
       /\ Return(s, [NoResult EXCEPT !.tool = "extract_fields",
                                     !.caller = c.user_id,
                                     !.target = c.target,
                                     !.status = "processing",
                                     !.action_required =
                                        "poll_for_completion"])

extract_fields(s) ==
    \/ extract_fields_doc(s)
    \/ extract_fields_update(s)

\* ---------------------------------------------------------------- query_application
\* modules_dict keys: the module numbers that have at least one row
completed_modules(app) == required_modules \ missing_modules(app)

\* int((len(completed_modules) / len(required_modules)) * 100)
completion_pct(app) == (Cardinality(completed_modules(app)) * 100) \div 5

\* variant: the lock of the mutating handlers is applied to the query
query_application_check_m(target, user_id) ==
    IF target = None THEN "application_id_required"
    ELSE IF ~Exists(target) THEN "application_not_found"
    ELSE IF Unauthorized(user_id, applications[target].user_id)
    THEN "unauthorized"
    ELSE IF applications[target].status \in TerminalStatuses
    THEN "application_locked"
    ELSE None

\* the error code of the checks of lines 73-117, or None when all pass
query_application_check(target, user_id) ==
    IF target = None THEN "application_id_required"
    ELSE IF ~Exists(target) THEN "application_not_found"
    ELSE IF Unauthorized(user_id, applications[target].user_id)
    THEN "unauthorized"
    ELSE None

\* lines 73-216: target resolution, SELECT the application with the existence
\* and owner checks, SELECT documents, SELECT module_data, completion
query_application(s) ==
    /\ CanInvoke(s)
    /\ Routes("query_application")
    /\ ncalls' = ncalls + 1
    /\ UNCHANGED store
    /\ \E application_id \in AppIds \cup {None}, ctx \in SessionContexts :
         LET target == ResolveTarget(application_id, ctx)
             c == [IdleCall EXCEPT !.tool = "query_application",
                                   !.target = target,
                                   !.user_id = ctx.user_id,
                                   !.locked_at_start = IsLocked(target)]
             code == query_application_check(target, ctx.user_id)
         IN  IF code # None THEN Reject(s, c, code)
             ELSE Return(s, [NoResult EXCEPT
                               !.tool = "query_application",
                               !.success = TRUE,
                               !.caller = ctx.user_id,
                               !.target = target,
                               !.status = applications[target].status,
                               !.percentage = completion_pct(target),
                               !.locked_at_start = IsLocked(target)])

\* ---------------------------------------------------------------- create_application
valid_cert_types == {"standard", "organic", "sustainable", "gmp"}
CertTypeInputs == {"standard", "platinum"}
EmailInputs == {None, "known@farm.org", "new@farm.org", "not-an-email"}
NameInputs == {None, "Jane Roe"}

\* the regular expression of validate_email on the sample addresses
validate_email(email) == email \in {"known@farm.org", "new@farm.org"}

\* SELECT id FROM auth.users WHERE email = $1 (accounts are not written here)
UserByEmail(email) == IF email = "known@farm.org" THEN "u1" ELSE None

\* variant: an e-mail without an account does not stop the call
create_application_check_m(certification_type, farmer_email, farmer_name, user_id) ==
    IF certification_type \notin valid_cert_types
    THEN "invalid_certification_type"
    ELSE IF user_id = None /\ farmer_email = None
    THEN "missing_required_fields"
    ELSE IF user_id = None /\ ~validate_email(farmer_email)
    THEN "invalid_email"
    ELSE IF user_id = None /\ farmer_name = None
    THEN "missing_required_fields"
    ELSE IF farmer_email # None /\ ~validate_email(farmer_email)
    THEN "invalid_email"
    ELSE None

\* the error code of lines 114-173, or None when the INSERT is reached;
\* user_id is session_context.user_id
create_application_check(certification_type, farmer_email, farmer_name, user_id) ==
    IF certification_type \notin valid_cert_types
    THEN "invalid_certification_type"
    ELSE IF user_id = None /\ farmer_email = None
    THEN "missing_required_fields"
    ELSE IF user_id = None /\ ~validate_email(farmer_email)
    THEN "invalid_email"
    ELSE IF user_id = None /\ farmer_name = None
    THEN "missing_required_fields"
    ELSE IF farmer_email # None /\ ~validate_email(farmer_email)
    THEN "invalid_email"
    ELSE IF user_id = None /\ UserByEmail(farmer_email) = None
    THEN "user_not_found"
    ELSE None

\* lines 114-202: validation, user lookup by e-mail, INSERT INTO applications
create_application(s) ==
    /\ CanInvoke(s)
    /\ Routes("create_application")
    /\ ncalls' = ncalls + 1
    /\ UNCHANGED <<documents, module_data, audit_trail>>
    /\ \E certification_type \in CertTypeInputs, farmer_email \in EmailInputs,
          farmer_name \in NameInputs, ctx \in SessionContexts :
         LET c == [IdleCall EXCEPT !.tool = "create_application"]
             user_id == IF ctx.user_id # None THEN ctx.user_id
                        ELSE UserByEmail(farmer_email)
             args(payload) ==
                 IF full_inputs
                 THEN [payload EXCEPT
                         !.caller = ctx.user_id,
                         !.certification_type = certification_type,
                         !.farmer_email = farmer_email,
                         !.farmer_name = farmer_name]
                 ELSE payload
             code == create_application_check(certification_type,
                                              farmer_email, farmer_name,
                                              ctx.user_id)
         IN  IF code # None
             THEN /\ RejectWith(s, args(ErrorPayload(c, code)))
                  /\ UNCHANGED applications
             ELSE \E id \in AppIds \ DOMAIN applications :
                    /\ applications' =
                         applications @@
                           (id :> [user_id |-> user_id, status |-> "draft",
                                   notes |-> 0, updated_at |-> 0])
                    /\ Return(s, args([NoResult EXCEPT
                                    !.tool = "create_application",
                                    !.success = TRUE,
                                    !.target = id,
                                    !.status = "draft"]))

\* ---------------------------------------------------------------- upload_document
DOCUMENT_TYPES ==
    {"financial_statement", "tax_return", "bank_statement", "land_deed",
     "insurance_certificate", "business_license", "environmental_permit",
     "compliance_certificate", "other"}
DocumentTypeInputs == {"tax_return", "selfie"}

\* lines 116-191: type validation, target resolution, SELECT the application
\* with the existence and owner checks, then the upload instruction payload
upload_document(s) ==
    /\ CanInvoke(s)
    /\ Routes("upload_document")
    /\ ncalls' = ncalls + 1
    /\ UNCHANGED store
    /\ \E document_type \in DocumentTypeInputs,
          application_id \in AppIds \cup {None}, ctx \in SessionContexts :
         LET target == ResolveTarget(application_id, ctx)
             c == [IdleCall EXCEPT !.tool = "upload_document",
                                   !.target = target,
                                   !.user_id = ctx.user_id,
                                   !.locked_at_start = IsLocked(target)]
         IN  IF document_type \notin DOCUMENT_TYPES
             THEN Reject(s, c, "invalid_document_type")
             ELSE IF target = None
             THEN Reject(s, c, "application_id_required")
             ELSE IF ~Exists(target)
             THEN Reject(s, c, "application_not_found")
             ELSE IF Unauthorized(ctx.user_id, applications[target].user_id)
             THEN Reject(s, c, "unauthorized")
             ELSE Return(s, [NoResult EXCEPT
                               !.tool = "upload_document",
                               !.success = TRUE,
                               !.caller = ctx.user_id,
                               !.target = target,
                               !.locked_at_start = IsLocked(target)])

\* ---------------------------------------------------------------- show_artifact
valid_types == {"document", "module_form", "extraction_preview",
                "application_summary", "audit_review"}
\* the arguments tried: every artifact kind and id with the full inputs, a
\* sample of them in longer runs
ArtifactTypeInputs ==
    IF full_inputs THEN valid_types \cup {"hologram"}
    ELSE {"module_form", "audit_review", "hologram"}
ArtifactIdInputs ==
    IF full_inputs THEN {"d1", "1", "7", "a1", "current"} ELSE {"1", "current"}
ArtifactAppInputs == {None, "a1"}

\* int(artifact_id): 0 stands for ValueError
ParseInt(artifact_id) ==
    IF artifact_id = "1" THEN 1 ELSE IF artifact_id = "7" THEN 7 ELSE 0

\* lines 97-351: type validation, then per artifact kind the lookup with the
\* existence and owner checks; the Store is only read
show_artifact(s) ==
    /\ CanInvoke(s)
    /\ Routes("show_artifact")
    /\ ncalls' = ncalls + 1
    /\ UNCHANGED store
    /\ \E artifact_type \in ArtifactTypeInputs, artifact_id \in ArtifactIdInputs,
          application_id \in ArtifactAppInputs, ctx \in SessionContexts :
         LET target == ResolveTarget(application_id, ctx)
             docapp == IF artifact_id \in DOMAIN documents
                       THEN documents[artifact_id].application_id ELSE None
             app_id == IF artifact_id # "current" THEN artifact_id ELSE target
             looked == IF artifact_type \in {"document", "extraction_preview"}
                       THEN docapp
                       ELSE IF artifact_type = "module_form" THEN target
                       ELSE app_id
             c == [IdleCall EXCEPT !.tool = "show_artifact",
                                   !.target = looked,
                                   !.user_id = ctx.user_id,
                                   !.locked_at_start = IsLocked(looked)]
             ok == Return(s, [NoResult EXCEPT
                                !.tool = "show_artifact",
                                !.success = TRUE,
                                !.caller = ctx.user_id,
                                !.target = looked,
                                !.status =
                                   IF artifact_type \in
                                        {"module_form", "application_summary"}
                                   THEN applications[looked].status ELSE None,
                                !.flagged_fields_count =
                                   IF artifact_type = "audit_review"
                                   THEN flagged_count(looked) ELSE 0,
                                !.locked_at_start = IsLocked(looked)])
         IN  IF artifact_type \notin valid_types
             THEN Reject(s, c, "invalid_artifact_type")
             ELSE IF artifact_type = "module_form" /\ target = None
             THEN Reject(s, c, "application_id_required")
             ELSE IF artifact_type \in {"document", "extraction_preview"}
             THEN IF docapp = None \/ ~Exists(docapp)
                  THEN Reject(s, c, "document_not_found")
                  ELSE IF Unauthorized(ctx.user_id, applications[docapp].user_id)
                  THEN Reject(s, c, "unauthorized")
                  ELSE ok
             ELSE IF artifact_type = "module_form"
                     /\ ParseInt(artifact_id) \notin 1..5
             THEN Reject(s, c, "invalid_module_number")
             ELSE IF looked = None
             THEN Reject(s, c, "application_id_required")
             ELSE IF ~Exists(looked)
             THEN Reject(s, c, "application_not_found")
             ELSE IF Unauthorized(ctx.user_id, applications[looked].user_id)
             THEN Reject(s, c, "unauthorized")
             ELSE ok

\* ---------------------------------------------------------------- specification
\* one statement of one handler invocation of session s
Step(s) ==
    \/ update_module(s)
    \/ request_audit(s)
    \/ certify_application(s)
    \/ extract_fields(s)
    \/ query_application(s)
    \/ create_application(s)
    \/ upload_document(s)
    \/ show_artifact(s)

\* handlers of different sessions interleave at their Store statements
Next == \E s \in Sessions : Step(s)

Spec == Init /\ [][Next]_vars

\* one handler at a time: a statement is taken only while no other session
\* has an invocation in flight
NextSeq == \E s \in Sessions : (\A t \in Sessions \ {s} : ~Busy(t)) /\ Step(s)

SpecSeq == Init /\ [][NextSeq]_vars

\* ---------------------------------------------------------------- one call on any Store
\* Stores that earlier calls and the services sharing the database leave
\* behind: an application without an owner id, every application and
\* document status, a field whose value is a JSON object, a flagged field,
\* an audit-trail row
AnyOwners == {"u1", None}
AnyStatuses == {"draft", "approved", "rejected"}
AnyDocStatuses ==
    {"pending", "processing", "completed", "processed", "audited", "failed",
     "error"}

\* values of field f1: a scalar, an object without audit keys, a flagged one
AnyValues ==
    { Scalar("v1"),
      [obj |-> TRUE, val |-> "v1", flagged |-> FALSE, reason |-> None,
       at |-> None],
      AuditFlagValue(Scalar("v1"), "r1") }

\* an approved application has rows for all five modules
AnyModuleData(status) ==
    { [m \in 1..n |-> IF m = 1 THEN [ExtractedRow(m) EXCEPT !.value = v]
                                ELSE ExtractedRow(m)] :
        n \in (IF status = "approved" THEN {5} ELSE {3, 5}), v \in AnyValues }

AnyAuditTrail ==
    { <<>>,
      << [application_id |-> "a1", user_id |-> "u1",
          action |-> "audit_requested", field_id |-> <<"f1">>,
          new_value |-> "r1"] >> }

InitAny ==
    /\ \E owner \in AnyOwners, st \in AnyStatuses :
          /\ applications = ("a1" :> [user_id |-> owner, status |-> st,
                                      notes |-> 0, updated_at |-> 0])
          /\ module_data \in AnyModuleData(st)
    /\ \/ documents = <<>>
       \/ \E st \in AnyDocStatuses :
             documents = ("d1" :> [application_id |-> "a1",
                                   extraction_status |-> st,
                                   extraction_metadata |-> st # "pending",
                                   needs_audit |-> st = "audited"])
    /\ audit_trail \in AnyAuditTrail
    /\ call = [s \in Sessions |-> IdleCall]
    /\ result = NoResult
    /\ ncalls = MaxCalls - 1
    /\ last_update = NoUpdate
    /\ full_inputs = TRUE
    /\ NewRegistry
    /\ NoRequests

\* one handler invocation, run to its return, from any such Store
SpecAny == InitAny /\ [][NextSeq]_vars

\* ---------------------------------------------------------------- extract_fields alone
\* a document in any OCR status, a NULL status included, and calls of
\* extract_fields from two sessions that interleave at the UPDATE
InitExtract ==
    /\ applications = ("a1" :> [user_id |-> "u1", status |-> "draft",
                                notes |-> 0, updated_at |-> 0])
    /\ module_data = [m \in 1..3 |-> ExtractedRow(m)]
    /\ \E st \in AnyDocStatuses \cup {None} :
          documents = ("d1" :> [application_id |-> "a1",
                                extraction_status |-> st,
                                extraction_metadata |->
                                   st \notin {"pending", None},
                                needs_audit |-> st = "audited"])
    /\ audit_trail = <<>>
    /\ call = [s \in Sessions |-> IdleCall]
    /\ result = NoResult
    /\ ncalls = 0
    /\ last_update = NoUpdate
    /\ full_inputs = TRUE
    /\ NewRegistry
    /\ NoRequests

NextExtract == \E s \in Sessions : extract_fields(s)

SpecExtract == InitExtract /\ [][NextExtract]_vars

\* ---------------------------------------------------------------- the registry
Range(seq) == {seq[i] : i \in DOMAIN seq}

\* names a caller may ask for or register beside the built-in ones
OtherNames == {"custom_tool", "unknown_tool"}
ToolNames == Range(RegisteredAtStart) \cup OtherNames
RegisterNames == {"show_artifact", "custom_tool"}
\* handler callables registered from outside the tools package
Handlers == {"h1", "h2"}
\* exception classes a handler call may end with
Exceptions == {"TypeError", "KeyError"}
Behaviours == {"returns", "returns_error"} \cup Exceptions

\* a tool definition: its "name" entry (None when the key is missing) and
\* whether it has an "input_schema" entry
Definitions ==
    [name : RegisterNames \cup {None}, input_schema : BOOLEAN]

\* variant: the error names the built-in tools
AvailableTools_m == RegisteredAtStart

\* list(self._tools.keys())
AvailableTools == Keys(tools)

\* self._tools[name]["handler"], None when the name is no key
HandlerOf(t, name) ==
    IF \E i \in DOMAIN t : t[i].name = name
    THEN t[CHOOSE i \in DOMAIN t : t[i].name = name].handler
    ELSE None

\* variant: a registration always adds an entry
Registered_m(t, name, handler) ==
    Append(t, [name |-> name, handler |-> handler])

\* self._tools[name] = {...}: an existing key keeps its place and gets the
\* new handler, a new key goes last
Registered(t, name, handler) ==
    IF name \in Range(Keys(t))
    THEN [i \in DOMAIN t |->
            IF t[i].name = name THEN [name |-> name, handler |-> handler]
            ELSE t[i]]
    ELSE Append(t, [name |-> name, handler |-> handler])

\* variant: every exception is reported as an execution error
ErrorType_m(exc) == "execution_error"

\* except TypeError: invalid_input; except Exception: execution_error
ErrorType(exc) ==
    IF exc = "TypeError" THEN "invalid_input" ELSE "execution_error"

\* the error_result of the two except clauses
Caught(tool_name, handler, exc) ==
    [success |-> FALSE, error_type |-> ErrorType(exc),
     available_tools |-> <<>>, tool_name |-> tool_name, timestamp |-> TRUE,
     execution_time |-> TRUE, handler |-> handler, behaviour |-> exc]

\* the registry is used by one caller at a time: an operation starts when
\* no handler call is in flight, and no built-in handler runs in it
RegistryFrame ==
    /\ \A s \in Sessions : ~Busy(s)
    /\ UNCHANGED <<store, call, ncalls, last_update, full_inputs>>
    /\ UNCHANGED <<pending, req, bot_messages, history_call>>
    /\ result' = NoResult

\* register_tool: ValueError on a definition without name or input_schema or
\* with another name; else the entry is set
register_tool ==
    \E name \in RegisterNames, handler \in Handlers,
       definition \in Definitions :
       /\ RegistryFrame
       /\ formatted' = NoEnvelope
       /\ registration' = [name |-> name, handler |-> handler,
                           definition |-> definition]
       /\ IF definition.name = None \/ ~definition.input_schema
             \/ definition.name # name
          THEN raised' = "ValueError" /\ UNCHANGED tools
          ELSE /\ raised' = None
               /\ tools' = Registered(tools, name, handler)

\* execute_tool with a name that is not a key of _tools
execute_tool_not_found ==
    \E tool_name \in ToolNames :
       /\ tool_name \notin Range(Keys(tools))
       /\ RegistryFrame
       /\ UNCHANGED tools
       /\ raised' = None
       /\ registration' = NoRegistration
       /\ formatted' = [NoEnvelope EXCEPT
                          !.error_type = "tool_not_found",
                          !.available_tools = AvailableTools,
                          !.tool_name = tool_name,
                          !.execution_time = TRUE]

\* execute_tool with a name whose handler was registered from outside: the
\* handler returns a dict, with or without an "error" key, or raises
execute_tool_registered ==
    \E tool_name \in RegisterNames, behaviour \in Behaviours :
       /\ HandlerOf(tools, tool_name) \in Handlers
       /\ RegistryFrame
       /\ UNCHANGED tools
       /\ raised' = None
       /\ registration' = NoRegistration
       /\ formatted' =
            IF behaviour \in Exceptions
            THEN Caught(tool_name, HandlerOf(tools, tool_name), behaviour)
            ELSE Formatted(tool_name, HandlerOf(tools, tool_name),
                           behaviour = "returns_error")

\* execute_tool with the name of a built-in handler that raises before its
\* first Store statement: a TypeError when tool_input does not fit the
\* parameters, and for query_application whatever get_db_client raises
\* ahead of the handler's try block
execute_tool_raises ==
    \E tool_name \in Range(RegisteredAtStart), exc \in Exceptions :
       /\ Routes(tool_name)
       /\ exc = "TypeError" \/ tool_name = "query_application"
       /\ RegistryFrame
       /\ UNCHANGED tools
       /\ raised' = None
       /\ registration' = NoRegistration
       /\ formatted' = Caught(tool_name, tool_name, exc)

\* one registry with one caller: registrations, lookups that fail, and the
\* steps of one dispatched handler on a draft application
InitRegistry ==
    /\ applications = ("a1" :> [user_id |-> "u1", status |-> "draft",
                                notes |-> 0, updated_at |-> 0])
    /\ documents = ("d1" :> [application_id |-> "a1",
                             extraction_status |-> "processed",
                             extraction_metadata |-> TRUE,
                             needs_audit |-> FALSE])
    /\ module_data \in InitModuleData("draft")
    /\ audit_trail = <<>>
    /\ call = [s \in Sessions |-> IdleCall]
    /\ result = NoResult
    /\ ncalls = MaxCalls - 1
    /\ last_update = NoUpdate
    /\ full_inputs = FALSE
    /\ NewRegistry
    /\ NoRequests

NextRegistry ==
    \/ register_tool
    \/ execute_tool_not_found
    \/ execute_tool_registered
    \/ execute_tool_raises
    \/ NextSeq

SpecRegistry == InitRegistry /\ [][NextRegistry]_vars

\* ---------------------------------------------------------------- chat and stream
\* execute_with_tools(max_iterations=5)
max_iterations == 5
\* chunks of one LLM stream
MaxChunks == 2

ChatSessions == {"c1"}
SessionIdInputs == IF full_inputs THEN {"c1", "c9"} ELSE {"c1"}

\* content blocks; the user's text is the block q
Block(type, id) == [type |-> type, id |-> id]
UserText == <<Block("text", "q")>>
\* contents of an LLM reply
Contents ==
    IF full_inputs
    THEN { <<Block("text", "t")>>,
           <<Block("tool_use", "tu_a")>>,
           <<Block("tool_use", "tu_a"), Block("tool_use", "tu_b")>>,
           <<Block("text", "t"), Block("tool_use", "tu_b")>> }
    ELSE { <<Block("text", "t")>>, <<Block("tool_use", "tu_a")>> }
StopReasons == {"tool_use", "end_turn"}
\* the replies of the LLM API; with the short input sets a reply stops for
\* tool use exactly when it has a tool-use block
Replies ==
    { rp \in [stop_reason : StopReasons, content : Contents] :
        full_inputs
        \/ (rp.stop_reason = "tool_use"
              <=> \E i \in DOMAIN rp.content :
                     rp.content[i].type = "tool_use") }

\* chunks of the LLM stream: a text delta, message_stop, a chunk whose
\* content lists a tool-use block, a line that is not JSON, and a JSON value
\* that is not an object
ChunkKinds ==
    {"text_delta", "message_stop", "tool_use", "bad_json", "not_object"}

IsToolUse(b) == b.type = "tool_use"
\* [block for block in content if block.get("type") == "tool_use"]
ToolUses(content) == SelectSeq(content, IsToolUse)
Ids(blocks) == [i \in DOMAIN blocks |-> blocks[i].id]
\* tool_results: one entry per tool use, with what _execute_tool returned,
\* the placeholder text
ToolResults(tool_uses) ==
    [i \in DOMAIN tool_uses |-> Block("tool_result", tool_uses[i].id)]

Message(role, content) == [role |-> role, content |-> content]
\* send_message(message=messages[-1]["content"]): the request body holds
\* one user message with that content
RequestMessages(messages) ==
    <<Message("user", messages[Len(messages)].content)>>

\* variant: one more LLM call is allowed
IterationsLeft_m(iteration) == iteration <= max_iterations

\* `for iteration in range(max_iterations)`
IterationsLeft(iteration) == iteration < max_iterations

\* variant: the messages are saved however the tool loop ended
AfterModel_m(outcome) == "save_user"

\* chat goes on to save_message when the model call returned; an exception
\* is turned into HTTP 500 by the except clause
AfterModel(outcome) == IF outcome = "returned" THEN "save_user" ELSE "done"

\* variant: the exception leaves the generator
StreamFailure_m(rq) == [rq EXCEPT !.escaped = TRUE, !.pc = "done"]

\* `except Exception` of generate_stream: one error event, then the end
StreamFailure(rq) ==
    [rq EXCEPT !.events = Append(@, "error"), !.pc = "done"]

\* a failure of the endpoint: HTTP 500 for chat, the error event for stream
Failure(rq) ==
    IF rq.endpoint = "chat"
    THEN [rq EXCEPT !.status = 500, !.pc = "done"]
    ELSE StreamFailure(rq)

\* what a step of a request leaves alone: it runs no registered tool
ChatFrame ==
    /\ UNCHANGED <<store, call, ncalls, last_update, full_inputs, tools,
                   history_call>>
    /\ result' = NoResult
    /\ formatted' = NoEnvelope
    /\ raised' = None
    /\ registration' = NoRegistration

Serve(r, rq) == req' = [req EXCEPT ![r] = rq]

\* limit=50 of the get_session_messages calls
limit == 50

\* positions of the rows of the session, in storage order
SessionRows(session_id) ==
    LET Of(i) == bot_messages[i].session_id = session_id
        RECURSIVE Pick(_)
        Pick(i) == IF i > Len(bot_messages) THEN <<>>
                   ELSE IF Of(i) THEN <<i>> \o Pick(i + 1) ELSE Pick(i + 1)
    IN  Pick(1)

\* SELECT ... WHERE session_id = $1 ORDER BY created_at ASC LIMIT $2
get_session_messages(session_id) ==
    LET rows == SessionRows(session_id)
    IN  IF Len(rows) <= limit THEN rows ELSE SubSeq(rows, 1, limit)

\* chat, lines 94-148: database client, session and history are loaded; an
\* unknown session is HTTP 404, a failing query HTTP 500. With tools the
\* conversation context joins the history and the new message (lines
\* 145-148); without, the message alone is sent (lines 180-183)
chat(r) ==
    /\ r \in pending
    /\ pending' = pending \ {r}
    /\ UNCHANGED bot_messages
    /\ ChatFrame
    /\ \E session_id \in SessionIdInputs, with_tools \in BOOLEAN,
          db_ok \in BOOLEAN :
         LET rq == [NoRequest EXCEPT !.endpoint = "chat",
                                     !.with_tools = with_tools,
                                     !.session_id = session_id]
         IN  IF ~db_ok THEN Serve(r, Failure(rq))
             ELSE IF session_id \notin ChatSessions
             THEN Serve(r, [rq EXCEPT !.status = 404, !.pc = "done"])
             ELSE Serve(r, [rq EXCEPT
                              !.pc = "model",
                              !.history = get_session_messages(session_id),
                              !.context =
                                 IF with_tools
                                 THEN get_session_messages(session_id)
                                 ELSE <<>>,
                              !.messages = <<Message("user", UserText)>>])

\* one iteration of execute_with_tools and, when it returns, lines 157-172
\* of chat: the reply of the LLM call is awaited, its tool-use blocks are
\* run by _execute_tool, and the two messages are appended
execute_with_tools(r) ==
    /\ req[r].pc = "model"
    /\ req[r].endpoint = "chat"
    /\ req[r].with_tools
    /\ UNCHANGED <<pending, bot_messages>>
    /\ ChatFrame
    /\ LET rq == [req[r] EXCEPT
                    !.last_sent = RequestMessages(req[r].messages)]
       IN  \/ Serve(r, Failure([rq EXCEPT !.outcome = "failed"]))
           \/ \E rp \in Replies :
                LET tool_uses == ToolUses(rp.content)
                    got == [rq EXCEPT !.stops = Append(@, rp.stop_reason)]
                    looped == [got EXCEPT
                                 !.executed = @ \o Ids(tool_uses),
                                 !.messages = @ \o
                                    << Message("assistant", rp.content),
                                       Message("user",
                                               ToolResults(tool_uses)) >>]
                IN  IF rp.stop_reason = "tool_use"
                    THEN IF IterationsLeft(Len(looped.stops))
                         THEN Serve(r, looped)
                         ELSE Serve(r, [looped EXCEPT
                                          !.outcome = "exceeded",
                                          !.status = 500,
                                          !.pc = AfterModel("exceeded")])
                    ELSE Serve(r, [got EXCEPT
                                     !.outcome = "returned",
                                     !.response = rp.content,
                                     !.tool_calls =
                                        Ids(ToolUses(rp.content)),
                                     !.pc = AfterModel("returned")])

\* chat without tools, lines 174-194: one send_message call
send_message(r) ==
    /\ req[r].pc = "model"
    /\ req[r].endpoint = "chat"
    /\ ~req[r].with_tools
    /\ UNCHANGED <<pending, bot_messages>>
    /\ ChatFrame
    /\ LET rq == [req[r] EXCEPT !.last_sent = req[r].messages]
       IN  \/ Serve(r, Failure([rq EXCEPT !.outcome = "failed"]))
           \/ \E rp \in Replies :
                Serve(r, [rq EXCEPT !.stops = Append(@, rp.stop_reason),
                                    !.outcome = "returned",
                                    !.response = rp.content,
                                    !.pc = AfterModel("returned")])

\* stream_chat, lines 194-219: as chat, then the generator is handed to the
\* StreamingResponse
stream_chat(r) ==
    /\ r \in pending
    /\ pending' = pending \ {r}
    /\ UNCHANGED bot_messages
    /\ ChatFrame
    /\ \E session_id \in SessionIdInputs, db_ok \in BOOLEAN :
         LET rq == [NoRequest EXCEPT !.endpoint = "stream",
                                     !.session_id = session_id]
         IN  IF ~db_ok
             THEN Serve(r, [rq EXCEPT !.status = 500, !.pc = "done"])
             ELSE IF session_id \notin ChatSessions
             THEN Serve(r, [rq EXCEPT !.status = 404, !.pc = "done"])
             ELSE Serve(r, [rq EXCEPT
                              !.status = 200,
                              !.pc = "stream",
                              !.history = get_session_messages(session_id),
                              !.context = get_session_messages(session_id),
                              !.messages = <<Message("user", UserText)>>])

\* generate_stream, lines 60-143: one chunk of the LLM stream is handled, or
\* the stream fails, or it ends and the database client is fetched
generate_stream(r) ==
    /\ req[r].pc = "stream"
    /\ UNCHANGED <<pending, bot_messages>>
    /\ ChatFrame
    /\ LET rq == req[r]
           next == [rq EXCEPT !.chunks = @ + 1]
       IN  \/ Serve(r, StreamFailure([rq EXCEPT !.outcome = "failed"]))
           \/ \E db_ok \in BOOLEAN :
                LET ended == [rq EXCEPT !.outcome = "returned"]
                IN  IF db_ok
                    THEN Serve(r, [ended EXCEPT !.pc = "save_user"])
                    ELSE Serve(r, StreamFailure(ended))
           \/ /\ rq.chunks < MaxChunks
              /\ \E chunk \in ChunkKinds :
                   CASE chunk = "text_delta" ->
                          Serve(r, [next EXCEPT
                                      !.events = Append(@, "token")])
                     [] chunk = "message_stop" ->
                          Serve(r, [next EXCEPT
                                      !.events = Append(@, "message_stop")])
                     [] chunk = "tool_use" ->
                          Serve(r, [next EXCEPT
                                      !.events = Append(@, "tool_use")])
                     [] chunk = "bad_json" -> Serve(r, next)
                     [] chunk = "not_object" ->
                          Serve(r, StreamFailure(
                                     [next EXCEPT !.outcome = "failed"]))

\* db.save_message(role="user"): chat lines 196-202, stream lines 145-150
save_user_message(r) ==
    /\ req[r].pc = "save_user"
    /\ UNCHANGED pending
    /\ ChatFrame
    /\ \/ /\ bot_messages' =
               Append(bot_messages, [session_id |-> req[r].session_id,
                                     role |-> "user", request |-> r])
          /\ Serve(r, [req[r] EXCEPT !.pc = "save_assistant"])
       \/ /\ UNCHANGED bot_messages
          /\ Serve(r, Failure(req[r]))

\* db.save_message(role="assistant") and the answer: chat lines 204-219,
\* stream lines 152-166
save_assistant_message(r) ==
    /\ req[r].pc = "save_assistant"
    /\ UNCHANGED pending
    /\ ChatFrame
    /\ \/ /\ bot_messages' =
               Append(bot_messages, [session_id |-> req[r].session_id,
                                     role |-> "assistant", request |-> r])
          /\ IF req[r].endpoint = "chat"
             THEN Serve(r, [req[r] EXCEPT !.status = 200, !.pc = "done"])
             ELSE Serve(r, [req[r] EXCEPT
                              !.events = Append(@, "complete"),
                              !.pc = "done"])
       \/ /\ UNCHANGED bot_messages
          /\ Serve(r, Failure(req[r]))

\* the tools are idle and their tables empty while requests are served
ToolsIdle ==
    /\ applications = <<>>
    /\ documents = <<>>
    /\ module_data = <<>>
    /\ audit_trail = <<>>
    /\ call = [s \in Sessions |-> IdleCall]
    /\ result = NoResult
    /\ ncalls = 0
    /\ last_update = NoUpdate
    /\ tools = [i \in DOMAIN RegisteredAtStart |->
                  [name |-> RegisteredAtStart[i],
                   handler |-> RegisteredAtStart[i]]]
    /\ formatted = NoEnvelope
    /\ raised = None
    /\ registration = NoRegistration

NextChat ==
    \E r \in Requests :
       \/ chat(r)
       \/ execute_with_tools(r)
       \/ send_message(r)
       \/ stream_chat(r)
       \/ generate_stream(r)
       \/ save_user_message(r)
       \/ save_assistant_message(r)

\* one request with every reply of the LLM
InitLoop ==
    /\ ToolsIdle
    /\ full_inputs = TRUE
    /\ pending = {"r1"}
    /\ req = [r \in Requests |-> NoRequest]
    /\ bot_messages = <<>>
    /\ history_call = NoHistoryCall

SpecLoop == InitLoop /\ [][NextChat]_vars

\* every LLM call and every database call is answered or fails in the end
SpecLoopFair == SpecLoop /\ WF_vars(NextChat)

\* two requests on one session, served concurrently
InitChat ==
    /\ ToolsIdle
    /\ full_inputs = FALSE
    /\ pending = Requests
    /\ req = [r \in Requests |-> NoRequest]
    /\ bot_messages = <<>>
    /\ history_call = NoHistoryCall

SpecChat == InitChat /\ [][NextChat]_vars

\* number of messages the session holds when the request arrives
MaxStored == 51

\* n stored messages of session c1 that alternate, written by earlier
\* requests
Stored(n) ==
    [i \in 1..n |-> [session_id |-> "c1",
                     role |-> IF i % 2 = 1 THEN "user" ELSE "assistant",
                     request |-> None]]

\* one request on a session with stored messages
InitContext ==
    /\ ToolsIdle
    /\ full_inputs = FALSE
    /\ pending = {"r1"}
    /\ req = [r \in Requests |-> NoRequest]
    /\ \E n \in 0..MaxStored : bot_messages = Stored(n)
    /\ history_call = NoHistoryCall

SpecContext == InitContext /\ [][NextChat]_vars

\* ---------------------------------------------------------------- History Manager
\* TOKENS_PER_MESSAGE_ESTIMATE: characters per token
TOKENS_PER_MESSAGE_ESTIMATE == 4
\* the default of truncate_to_fit's keep_most_recent, which prepare_for_api
\* uses
keep_most_recent == 10
\* length of the histories drawn with every role and text
MaxLen == 3
\* number of messages drawn in front of a window of keep_most_recent ones
MaxOlder == 3

Roles == {"user", "assistant", "system"}
Texts == {"", "hi", "word"}
\* len() of the texts
len(text) == CASE text = "" -> 0 [] text = "hi" -> 2 [] text = "word" -> 4
                [] text = "q" -> 1

\* rows as get_session_messages returns them
Row(i, role, content) == [id |-> i, role |-> role, content |-> content]

\* short histories of any shape
ShortHistories ==
    UNION { { [i \in 1..n |-> Row(i, rs[i], ts[i])] :
                rs \in [1..n -> Roles], ts \in [1..n -> Texts] } :
            n \in 0..MaxLen }

\* the most recent window: keep_most_recent messages that alternate and end
\* with an assistant message, all with the same text
Recent(first, text) ==
    [i \in 1..keep_most_recent |->
       Row(first + i - 1, IF i % 2 = 1 THEN "user" ELSE "assistant", text)]

\* long histories: older messages of either role in front of such a window
LongHistories ==
    UNION { { [i \in 1..n |-> Row(i, rs[i], ts[i])] \o Recent(n + 1, text) :
                rs \in [1..n -> {"user", "assistant"}],
                ts \in [1..n -> Texts], text \in {"", "word"} } :
            n \in 1..MaxOlder }

Histories == ShortHistories \cup LongHistories
\* values of the max_tokens attribute
Budgets == {0, 1, 2, 10, 11}
KeepInputs == {0, 1, 2, keep_most_recent}
NewMessageInputs == {None, "", "q"}

RECURSIVE total_chars(_)
\* sum(len(msg.get("content", "")) for msg in messages)
total_chars(messages) ==
    IF messages = <<>> THEN 0
    ELSE len(messages[1].content) + total_chars(Tail(messages))

\* variant: the estimate rounds up
estimate_tokens_m(messages) ==
    (total_chars(messages) + TOKENS_PER_MESSAGE_ESTIMATE - 1)
       \div TOKENS_PER_MESSAGE_ESTIMATE

\* int(total_chars * self.tokens_per_char), tokens_per_char being
\* 1.0 / TOKENS_PER_MESSAGE_ESTIMATE
estimate_tokens(messages) ==
    total_chars(messages) \div TOKENS_PER_MESSAGE_ESTIMATE

\* messages[-k:] and messages[:-k] for k >= 0; -0 is 0, so k = 0 gives the
\* whole list and the empty one
LastOf(messages, k) ==
    IF k = 0 \/ k >= Len(messages) THEN messages
    ELSE SubSeq(messages, Len(messages) - k + 1, Len(messages))
AllButLast(messages, k) ==
    IF k = 0 \/ k >= Len(messages) THEN <<>>
    ELSE SubSeq(messages, 1, Len(messages) - k)

RECURSIVE Prepended(_, _, _)
\* lines 146-155: the loop over reversed(remaining_messages)
Prepended(remaining_messages, truncated, max_tokens) ==
    IF remaining_messages = <<>> THEN truncated
    ELSE LET msg == remaining_messages[Len(remaining_messages)]
             test_history == <<msg>> \o truncated
         IN  IF estimate_tokens(test_history) <= max_tokens
             THEN Prepended(SubSeq(remaining_messages, 1,
                                   Len(remaining_messages) - 1),
                            test_history, max_tokens)
             ELSE truncated

\* variant: the window of recent messages is filled under the budget too
truncate_to_fit_m(messages, keep, max_tokens) ==
    IF messages = <<>> THEN <<>>
    ELSE IF estimate_tokens(messages) <= max_tokens THEN messages
    ELSE Prepended(messages, <<>>, max_tokens)

\* lines 105-160; keep is the argument keep_most_recent
truncate_to_fit(messages, keep, max_tokens) ==
    IF messages = <<>> THEN <<>>
    ELSE IF estimate_tokens(messages) <= max_tokens THEN messages
    ELSE LET kept_messages ==
                 IF Len(messages) > keep THEN LastOf(messages, keep)
                 ELSE messages
             remaining_messages ==
                 IF Len(messages) > keep THEN AllButLast(messages, keep)
                 ELSE <<>>
         IN  Prepended(remaining_messages, kept_messages, max_tokens)

HasChatRole(msg) == msg.role \in {"user", "assistant"}
\* lines 44-85: messages of another role are skipped, role and content kept
format_for_claude(messages) ==
    LET valid == SelectSeq(messages, HasChatRole)
    IN  [i \in DOMAIN valid |->
           [role |-> valid[i].role, content |-> valid[i].content]]

\* variant: the first role is not looked at
validate_alternation_m(messages) ==
    /\ \A i \in DOMAIN messages : HasChatRole(messages[i])
    /\ \A i \in 1..(Len(messages) - 1) :
          messages[i].role # messages[i + 1].role

\* lines 162-196: is_valid
validate_alternation(messages) ==
    \/ messages = <<>>
    \/ /\ \A i \in DOMAIN messages : HasChatRole(messages[i])
       /\ \A i \in 1..(Len(messages) - 1) :
             messages[i].role # messages[i + 1].role
       /\ messages[1].role = "user"

\* lines 198-239: the list validate_alternation is given
Prepared(messages, new_user_message, auto_truncate, max_tokens) ==
    LET kept == IF auto_truncate
                THEN truncate_to_fit(messages, keep_most_recent, max_tokens)
                ELSE messages
        claude_messages == format_for_claude(kept)
    IN  IF new_user_message \notin {None, ""}
        THEN Append(claude_messages,
                    [role |-> "user", content |-> new_user_message])
        ELSE claude_messages

HistoryFrame ==
    /\ UNCHANGED <<store, call, ncalls, last_update, full_inputs, tools,
                   result, formatted, raised, registration,
                   pending, req, bot_messages>>

\* one call of truncate_to_fit
call_truncate_to_fit ==
    /\ history_call.op = None
    /\ HistoryFrame
    /\ \E keep \in KeepInputs :
         history_call' =
           [history_call EXCEPT
              !.op = "truncate_to_fit",
              !.keep = keep,
              !.output = truncate_to_fit(history_call.messages, keep,
                                         history_call.max_tokens)]

\* one call of prepare_for_api
call_prepare_for_api ==
    /\ history_call.op = None
    /\ HistoryFrame
    /\ \E new_user_message \in NewMessageInputs, auto_truncate \in BOOLEAN :
         LET prepared == Prepared(history_call.messages, new_user_message,
                                  auto_truncate, history_call.max_tokens)
             is_valid == validate_alternation(prepared)
         IN  history_call' =
               [history_call EXCEPT
                  !.op = "prepare_for_api",
                  !.keep = keep_most_recent,
                  !.new_user_message = new_user_message,
                  !.auto_truncate = auto_truncate,
                  !.output = IF is_valid THEN prepared ELSE <<>>,
                  !.raised = ~is_valid]

InitHistory ==
    /\ ToolsIdle
    /\ full_inputs = FALSE
    /\ pending = {}
    /\ req = <<>>
    /\ bot_messages = <<>>
    /\ \E messages \in Histories, max_tokens \in Budgets :
          history_call = [NoHistoryCall EXCEPT !.messages = messages,
                                               !.max_tokens = max_tokens]

NextHistory ==
    \/ call_truncate_to_fit
    \/ call_prepare_for_api

SpecHistory == InitHistory /\ [][NextHistory]_vars
\* ================================================================ properties
\* session s takes the step
StepBy(s) == call'[s] # call[s] \/ (ncalls' # ncalls /\ result'.session = s)

\* session s was invoked with `tool` and returned in this very step
Rejected(s, tool) ==
    ncalls' # ncalls /\ result'.session = s /\ result'.tool = tool

\* the caller of the returned call passes the ownership check
OwnerOrAnonymous(r) ==
    /\ r.target \in DOMAIN applications
    /\ r.caller = None \/ r.caller = applications[r.target].user_id

\* the certification checks that fail for application a, read off the Store
FailingChecks(a) ==
    { st \in {"pending", "processing", "error"} :
        \E d \in DOMAIN documents :
           /\ documents[d].application_id = a
           /\ documents[d].extraction_status = st }
    \cup (IF \E m \in 1..5 : \A i \in 1..Len(module_data) :
                ~(/\ module_data[i].application_id = a
                  /\ module_data[i].module_number = m)
          THEN {"missing_modules"} ELSE {})
    \cup (IF \E i \in 1..Len(module_data) :
                /\ module_data[i].application_id = a
                /\ module_data[i].value.obj
                /\ module_data[i].value.flagged
          THEN {"flagged"} ELSE {})
    \cup (IF \A d \in DOMAIN documents : documents[d].application_id # a
          THEN {"no_documents"} ELSE {})

\* C1: an update_module call invoked on an application whose status is
\* approved or rejected, with a module number in 1..5 and a caller that
\* passes the ownership check, returns application_locked, changes no Store
\* row, and never gets past its status check.
C1_LockUpdateModule ==
    [][\A s \in Sessions :
         /\ ~(call'[s].tool = "update_module" /\ call'[s].locked_at_start)
         /\ ( /\ Rejected(s, "update_module")
              /\ result'.locked_at_start
              /\ result'.module_number \in 1..5
              /\ OwnerOrAnonymous(result') )
            => (result'.error = "application_locked" /\ UNCHANGED store)]_vars

C1_Witness ==
    /\ result.tool = "update_module"
    /\ result.error = "application_locked"
    /\ result.target \in DOMAIN applications
    /\ applications[result.target].status = "approved"

\* C2: a request_audit call invoked on an application whose status is
\* approved or rejected, naming a target and made by a caller that passes the
\* ownership check, returns application_locked, changes no Store row, and
\* never gets past a status check.
C2_LockRequestAudit ==
    [][\A s \in Sessions :
         /\ ~(call'[s].tool = "request_audit" /\ call'[s].locked_at_start)
         /\ ( /\ Rejected(s, "request_audit")
              /\ result'.locked_at_start
              /\ result'.error # "no_targets_specified"
              /\ OwnerOrAnonymous(result') )
            => (result'.error = "application_locked" /\ UNCHANGED store)]_vars

\* C3: while a certify_application call that passed confirmation, ownership
\* and the terminal-status check runs on an application with a failing check,
\* none of its steps writes to the Store, it never reaches the status UPDATE,
\* and it returns validation_failed with one entry for every failing check.
C3_GateCompleteness ==
    [][\A s \in Sessions :
         ( /\ call[s].tool = "certify_application"
           /\ StepBy(s)
           /\ FailingChecks(call[s].target) # {} )
         => /\ UNCHANGED store
            /\ call'[s].pc # "ca_update"
            /\ call'[s].tool = None
                 => /\ result'.error = "validation_failed"
                    /\ result'.failures = FailingChecks(call[s].target)]_vars

C3_Witness ==
    /\ result.tool = "certify_application"
    /\ result.error = "validation_failed"
    /\ {"pending", "missing_modules", "flagged"} \subseteq result.failures
    /\ applications[result.target].status = "draft"

\* C4: the step of certify_application that sets the status to approved is
\* taken only in a state where none of the four checks fails.
C4_GateSoundness ==
    [][\A s \in Sessions :
         (call[s].pc = "ca_update" /\ call'[s].pc # "ca_update")
         => FailingChecks(call[s].target) = {}]_vars

\* C5: no step changes the status of an application that is approved or
\* rejected, and a confirmed certify_application call invoked on such an
\* application by a caller that passes the ownership check returns
\* already_certified, writes nothing and never gets past that check.
C5_TerminalIrreversible ==
    [][/\ \A a \in DOMAIN applications :
            applications[a].status \in {"approved", "rejected"}
            => /\ a \in DOMAIN applications'
               /\ applications'[a].status = applications[a].status
       /\ \A s \in Sessions :
            /\ ~(call'[s].tool = "certify_application"
                 /\ call'[s].locked_at_start)
            /\ ( /\ Rejected(s, "certify_application")
                 /\ result'.locked_at_start
                 /\ result'.confirmed
                 /\ OwnerOrAnonymous(result') )
               => (result'.error = "already_certified" /\ UNCHANGED store)]_vars

C5_Witness ==
    /\ result.tool = "certify_application"
    /\ result.error = "already_certified"
    /\ applications[result.target].status = "approved"

C7_AuditedDocumentBlocks ==
    [][\A s \in Sessions :
         (call[s].pc = "ca_update" /\ call'[s].pc # "ca_update")
         => ~\E d \in DOMAIN documents :
               /\ documents[d].application_id = call[s].target
               /\ documents[d].extraction_status = "audited"]_vars

\* C8: while a field of the application carries an audit flag set by
\* request_audit, a certify_application call that passed confirmation,
\* ownership and the terminal-status check never reaches the status UPDATE
\* and returns validation_failed listing the flagged-field failure.
C8_FlaggedFieldBlocks ==
    [][\A s \in Sessions :
         ( /\ call[s].tool = "certify_application"
           /\ StepBy(s)
           /\ \E i \in 1..Len(module_data) :
                 /\ module_data[i].application_id = call[s].target
                 /\ module_data[i].value.obj
                 /\ module_data[i].value.flagged
                 /\ module_data[i].value.at # None )
         => /\ call'[s].pc # "ca_update"
            /\ call'[s].tool = None
                 => /\ result'.error = "validation_failed"
                    /\ "flagged" \in result'.failures]_vars

C8_Witness ==
    /\ result.tool = "certify_application"
    /\ result.error = "validation_failed"
    /\ "flagged" \in result.failures
    /\ \E i \in 1..Len(module_data) :
          /\ module_data[i].application_id = result.target
          /\ module_data[i].value.flagged
          /\ module_data[i].value.reason \in Reasons

\* the second of two successive successful update_module calls with the same
\* (application, module number, field id) and different values has returned
SecondUpdateReturned ==
    /\ result.tool = "update_module"
    /\ result.success
    /\ result.previous.target = result.target
    /\ result.previous.module_number = result.module_number
    /\ result.previous.field_id = result.field_id
    /\ result.previous.value # result.new_value

\* C9: after two successive update_module calls with the same key and
\* different values there is exactly one row for the key, it holds the second
\* value with data_source proxy_edited, and the second call reported
\* old_value equal to the value written by the first.
C9_IdempotentLookup ==
    SecondUpdateReturned =>
      LET rows == { i \in 1..Len(module_data) :
                      /\ module_data[i].application_id = result.target
                      /\ module_data[i].module_number = result.module_number
                      /\ module_data[i].field_id = result.field_id }
      IN  /\ Cardinality(rows) = 1
          /\ \A i \in rows :
                /\ module_data[i].data_source = "proxy_edited"
                /\ module_data[i].value = Scalar(result.new_value)
          /\ result.data_source = "proxy_edited"
          /\ result.old_value = Scalar(result.previous.value)

C9_Witness == SecondUpdateReturned /\ result.previous.value = "v1"

\* C10: there is at most one module_data row per
\* (application id, module, field id).
C10_FieldKeyUnique ==
    \A i, j \in 1..Len(module_data) :
       ( /\ module_data[i].application_id = module_data[j].application_id
         /\ module_data[i].module_number = module_data[j].module_number
         /\ module_data[i].field_id = module_data[j].field_id )
       => i = j

\* ---------------------------------------------------------------- authorization
\* the handlers that load an application
AppTools ==
    {"query_application", "upload_document", "update_module", "request_audit",
     "certify_application", "show_artifact", "extract_fields"}

\* error codes of the argument checks that precede the application lookup
ArgumentErrors ==
    {"invalid_module", "application_id_required", "no_targets_specified",
     "confirmation_required", "invalid_document_type", "invalid_artifact_type",
     "invalid_module_number"}

\* session s returns in this step
Returned(s) == result'.session = s

\* session s is invoked in this step and suspends at a later Store statement
Suspended(s) == call[s].pc = "idle" /\ call'[s].pc # "idle"

\* caller id present, and the owner id of the existing target missing or
\* different
OwnerMissingOrDiffers(user_id, target) ==
    /\ user_id # None
    /\ target \in DOMAIN applications
    /\ applications[target].user_id # user_id

\* caller id present and different from the owner id the existing target has
NotOwner(user_id, target) ==
    /\ OwnerMissingOrDiffers(user_id, target)
    /\ applications[target].user_id # None

C12_InformationHiding ==
    [][\A s \in Sessions :
         ( /\ Returned(s)
           /\ result'.tool \in AppTools
           /\ result'.tool # "extract_fields"
           /\ NotOwner(result'.caller, result'.target)
           /\ result'.error \notin ArgumentErrors )
         => result'.error = "application_not_found"]_vars

\* C13: past the argument checks and on an existing application, a handler
\* returns unauthorized exactly when a caller id is supplied and the owner
\* id is missing or different; a call without a caller id is never refused
\* as unauthorized, and only calls that pass this check go on.
C13_AuthorizationFailsClosed ==
    [][\A s \in Sessions :
         /\ (Suspended(s) /\ call'[s].tool \in AppTools)
            => ~OwnerMissingOrDiffers(call'[s].user_id, call'[s].target)
         /\ ( /\ Returned(s)
              /\ result'.tool \in AppTools
              /\ result'.target \in DOMAIN applications
              /\ result'.error \notin ArgumentErrors )
            => ( result'.error = "unauthorized"
                 <=> OwnerMissingOrDiffers(result'.caller,
                                           result'.target) )]_vars

\* ---------------------------------------------------------------- request_audit
\* C14: a request_audit call whose reason is empty, or that names neither a
\* document nor a field, never gets past its argument checks: it returns an
\* error payload in its first step and writes nothing.
C14_RequestAuditInputGate ==
    [][\A s \in Sessions :
         /\ (Suspended(s) /\ call'[s].tool = "request_audit")
            => /\ call'[s].reason # ""
               /\ call'[s].document_id # None \/ call'[s].field_ids # <<>>
         /\ (Rejected(s, "request_audit")
               /\ result'.error = "no_targets_specified")
            => UNCHANGED store]_vars

\* C15: when a request_audit call with a document target returns success,
\* the document's status is audited exactly if it was completed, processed
\* or audited when the call was made, and is otherwise what it was.
C15_DocumentEscalation ==
    [][\A s \in Sessions :
         ( /\ call[s].tool = "request_audit"
           /\ Returned(s)
           /\ result'.success
           /\ result'.flagged_document )
         => LET d == call[s].document_id
                before == call[s].doc_status_at_start
            IN  /\ d \in DOMAIN documents'
                /\ documents'[d].extraction_status = "audited"
                     <=> before \in {"completed", "processed", "audited"}
                /\ before \notin {"completed", "processed", "audited"}
                     => documents'[d].extraction_status = before]_vars

\* C16: the UPDATE by which request_audit flags a field keeps the original
\* value and leaves a value that carries the audit flag with a reason and a
\* timestamp, whether the stored value was a scalar or an object.
C16_AuditFlagAdditive ==
    [][\A s \in Sessions :
         (call[s].pc = "ra_field_upd" /\ StepBy(s))
         => LET v == module_data'[call[s].row].value
            IN  /\ v.val = module_data[call[s].row].value.val
                /\ v.obj /\ v.flagged
                /\ v.reason # None
                /\ v.at # None]_vars

\* C17: no step changes or removes an audit-trail row, and a request_audit
\* or certify_application call that returns success has appended exactly
\* one row, for its application and action, whoever the caller is.
C17_AuditTrailComplete ==
    [][/\ Len(audit_trail') >= Len(audit_trail)
       /\ SubSeq(audit_trail', 1, Len(audit_trail)) = audit_trail
       /\ \A s \in Sessions :
            ( /\ call[s].tool \in {"request_audit", "certify_application"}
              /\ Returned(s)
              /\ result'.success )
            => /\ Len(audit_trail') = call[s].trail_at_start + 1
               /\ audit_trail'[Len(audit_trail')].application_id
                    = result'.target
               /\ audit_trail'[Len(audit_trail')].action =
                    (IF call[s].tool = "request_audit"
                     THEN "audit_requested" ELSE "application_certified")]_vars

C19_ReadOnlyTools ==
    [][\A s \in Sessions :
         (Returned(s)
            /\ result'.tool \in {"query_application", "show_artifact"})
         => /\ UNCHANGED store
            /\ result'.error # "application_locked"
            /\ ( /\ result'.locked_at_start
                 /\ OwnerOrAnonymous(result')
                 /\ result'.error \notin ArgumentErrors )
               => result'.success]_vars

C19_Witness ==
    /\ result.tool = "query_application"
    /\ result.success
    /\ result.status = "approved"
    /\ result.caller = "u1"

\* ---------------------------------------------------------------- registry
\* C20: execute_tool with a name that is not registered returns a
\* tool_not_found error listing the names registered at that moment, in
\* order, runs no handler step, changes no Store row and raises nothing.
C20_UnknownTool ==
    [][\A name \in ToolNames :
         (formatted'.tool_name = name /\ name \notin Range(Keys(tools)))
         => /\ ~formatted'.success
            /\ formatted'.error_type = "tool_not_found"
            /\ formatted'.available_tools = Keys(tools)
            /\ raised' = None
            /\ result' = NoResult
            /\ UNCHANGED <<store, call, ncalls, tools>>]_vars

C20_Witness ==
    /\ formatted.error_type = "tool_not_found"
    /\ formatted.tool_name = "unknown_tool"
    /\ formatted.available_tools = Append(RegisteredAtStart, "custom_tool")

\* C21: execute_tool with a registered name raises nothing and returns an
\* envelope of exactly one kind, fixed by what the handler did: success for
\* a payload without error key, a failure without error type for a payload
\* with one, invalid_input for a TypeError, execution_error for any other
\* exception.
C21_FaultIsolation ==
    [][\A name \in ToolNames :
         (formatted'.tool_name = name /\ name \in Range(Keys(tools)))
         => LET e == formatted'
            IN  /\ raised' = None
                /\ e.behaviour \in Behaviours
                /\ e.behaviour = "returns"
                     <=> (e.success /\ e.error_type = None)
                /\ e.behaviour = "returns_error"
                     <=> (~e.success /\ e.error_type = None)
                /\ e.behaviour = "TypeError"
                     <=> (~e.success /\ e.error_type = "invalid_input")
                /\ e.behaviour \in Exceptions \ {"TypeError"}
                     <=> (~e.success /\ e.error_type = "execution_error")
                /\ result'.session # None
                     => (e.success <=> result'.error = None)]_vars

C21_Witness ==
    /\ formatted.tool_name = "custom_tool"
    /\ formatted.handler = "h1"
    /\ formatted.behaviour = "KeyError"
    /\ formatted.error_type = "execution_error"

\* C22: every envelope execute_tool returns has a tool name, an execution
\* time and a timestamp.
C22_EnvelopeFields ==
    formatted # NoEnvelope
    => /\ formatted.tool_name # None
       /\ formatted.execution_time
       /\ formatted.timestamp

\* C23: a register_tool call with a definition that lacks its name or input
\* schema, or names another tool, raises ValueError and leaves the registry
\* as it was; any other call raises nothing, sets the handler of the name
\* and leaves every other entry, adding an entry only for a new name; and
\* every execute_tool call runs the handler the registry holds for the name.
C23_Registration ==
    [][/\ registration'.name # None
          => LET r == registration'
                 bad == \/ r.definition.name = None
                        \/ ~r.definition.input_schema
                        \/ r.definition.name # r.name
             IN  /\ bad => (raised' = "ValueError" /\ UNCHANGED tools)
                 /\ ~bad
                     => /\ raised' = None
                        /\ HandlerOf(tools', r.name) = r.handler
                        /\ Keys(tools') =
                             (IF r.name \in Range(Keys(tools))
                              THEN Keys(tools)
                              ELSE Append(Keys(tools), r.name))
                        /\ \A i \in DOMAIN tools :
                             tools[i].name # r.name => tools'[i] = tools[i]
       /\ formatted'.handler # None
          => formatted'.handler = HandlerOf(tools, formatted'.tool_name)]_vars

C23_Witness ==
    /\ formatted.tool_name = "show_artifact"
    /\ formatted.handler = "h2"
    /\ Len(tools) = Len(RegisteredAtStart)

\* ---------------------------------------------------------------- tool loop
\* the request runs execute_with_tools
InLoop(rq) == rq.endpoint = "chat" /\ rq.with_tools

Served == \A r \in Requests : req[r].pc \in {"absent", "done"}

\* the loop made at most max_iterations LLM calls; it returned on the first
\* reply that did not stop for tool use; it ended with the loop-exceeded
\* error exactly when max_iterations replies all stopped for tool use
LoopBounded ==
    \A r \in Requests :
       InLoop(req[r])
       => LET st == req[r].stops
              all_tool_use(n) == \A i \in 1..n : st[i] = "tool_use"
          IN  /\ Len(st) <= max_iterations
              /\ req[r].outcome = "returned"
                  => /\ Len(st) >= 1
                     /\ st[Len(st)] # "tool_use"
                     /\ all_tool_use(Len(st) - 1)
              /\ req[r].outcome = "exceeded"
                  <=> (Len(st) = max_iterations /\ all_tool_use(Len(st)))
              /\ (req[r].pc = "model" /\ Len(st) > 0)
                  => (Len(st) < max_iterations /\ all_tool_use(Len(st)))

\* C24: the tool loop of a chat request makes at most max_iterations LLM
\* calls, returns the first reply that does not stop for tool use, raises
\* the loop-exceeded error exactly when max_iterations replies all stopped
\* for tool use, and every request is finished in the end.
C24_LoopTerminates == []LoopBounded /\ <>[]Served

C24_Witness ==
    /\ req["r1"].outcome = "exceeded"
    /\ Len(req["r1"].stops) = max_iterations
    /\ req["r1"].status = 500

\* C25: every LLM call of the tool loop is sent the whole message list
\* accumulated so far.
C25_AccumulatedContext ==
    [][\A r \in Requests :
         (InLoop(req[r]) /\ req[r].pc = "model" /\ req'[r] # req[r])
         => req'[r].last_sent = req[r].messages]_vars

\* C26: a reply that stops for tool use has each of its tool-use blocks
\* executed once, in order, through the registry, and the tool results
\* appended are those of the same blocks in the same order.
C26_ToolDispatchOrder ==
    [][\A r \in Requests :
         ( /\ InLoop(req[r])
           /\ Len(req'[r].messages) > Len(req[r].messages)
           /\ Len(req[r].messages) > 0 )
         => LET n == Len(req'[r].messages)
                blocks == ToolUses(req'[r].messages[n - 1].content)
            IN  /\ req'[r].executed = req[r].executed \o Ids(blocks)
                /\ Ids(req'[r].messages[n].content) = Ids(blocks)
                /\ blocks # <<>> => formatted'.tool_name # None]_vars

\* C27: the tool_calls of a chat answer are the tool invocations executed
\* during the tool loop of the request, in execution order.
C27_ChatReportsToolCalls ==
    \A r \in Requests :
       (InLoop(req[r]) /\ req[r].status = 200)
       => req[r].tool_calls = req[r].executed

\* ---------------------------------------------------------------- persistence
\* C28: a step writes at most one message and changes no stored one; the
\* writer's model interaction has ended without failure before the step; a
\* request writes its user message first and then its assistant message,
\* each at most once; a request whose tool loop hit the iteration cap
\* writes nothing.
C28_PersistOnce ==
    [][/\ Len(bot_messages') \in {Len(bot_messages), Len(bot_messages) + 1}
       /\ SubSeq(bot_messages', 1, Len(bot_messages)) = bot_messages
       /\ Len(bot_messages') > Len(bot_messages)
          => LET m == bot_messages'[Len(bot_messages')]
                 By(x) == x.request = m.request
                 mine == SelectSeq(bot_messages, By)
             IN  /\ req[m.request].outcome = "returned"
                 /\ m.role = "user" => mine = <<>>
                 /\ m.role = "assistant"
                     => (Len(mine) = 1 /\ mine[1].role = "user")
       /\ \A r \in Requests :
            req'[r].outcome = "exceeded"
            => \A i \in DOMAIN bot_messages' :
                  bot_messages'[i].request # r]_vars

C28_Witness ==
    /\ req["r1"].outcome = "exceeded"
    /\ req["r1"].pc = "done"
    /\ req["r2"].endpoint = "stream"
    /\ Len(bot_messages) = 2
    /\ bot_messages[2].role = "assistant"

\* C29: the stored messages of every session alternate between user and
\* assistant, starting with user.
C29_StoredAlternation ==
    \A c \in ChatSessions :
       LET In(x) == x.session_id = c
           rows == SelectSeq(bot_messages, In)
       IN  \A i \in DOMAIN rows :
              rows[i].role = (IF i % 2 = 1 THEN "user" ELSE "assistant")

\* ---------------------------------------------------------------- stream
TerminalEvents == {"complete", "error"}

\* C30: the events of a stream request are only ever extended, nothing
\* follows a complete or error event, a finished generator has yielded
\* exactly one of the two, as its last event, and no exception leaves the
\* generator.
C30_StreamTermination ==
    [][\A r \in Requests :
         req'[r].endpoint = "stream"
         => LET ev == req[r].events
                ev2 == req'[r].events
            IN  /\ ~req'[r].escaped
                /\ Len(ev2) >= Len(ev)
                /\ SubSeq(ev2, 1, Len(ev)) = ev
                /\ \A i \in 1..(Len(ev2) - 1) : ev2[i] \notin TerminalEvents
                /\ (req'[r].pc = "done" /\ req'[r].status = 200)
                    <=> (ev2 # <<>> /\ ev2[Len(ev2)] \in TerminalEvents)]_vars

C30_Witness ==
    /\ req["r1"].endpoint = "stream"
    /\ req["r1"].events = <<"token", "error">>
    /\ req["r1"].pc = "done"

\* ---------------------------------------------------------------- C34
\* create_application returns in this step
Created == result'.tool = "create_application" /\ ncalls' = ncalls + 1

C36_FailedDocumentBlocks ==
    [][\A s \in Sessions :
         (call[s].pc = "ca_update" /\ call'[s].pc # "ca_update")
         => ~\E d \in DOMAIN documents :
               /\ documents[d].application_id = call[s].target
               /\ documents[d].extraction_status = "failed"]_vars

\* the audit-trail entries that record the certification of app
CertificationEntries(trail, app) ==
    { i \in DOMAIN trail : /\ trail[i].application_id = app
                           /\ trail[i].action = "application_certified" }

\* C37: no double certification, whatever the interleaving of the calls.
\* The status UPDATE of certify_application is issued only on an
\* application that is not approved yet, an application never holds more
\* than one certification note nor more than one certification entry in
\* the audit trail, and a call returns success only as the one call that
\* certified: the application then holds exactly one certification note
C37_NoDoubleCertification ==
    [][/\ \A s \in Sessions :
            (call[s].pc = "ca_update" /\ call'[s].pc # "ca_update"
             /\ Exists(call[s].target))
            => applications[call[s].target].status # "approved"
       /\ \A a \in DOMAIN applications' :
            /\ applications'[a].notes <= 1
            /\ Cardinality(CertificationEntries(audit_trail', a)) <= 1
       /\ (result'.tool = "certify_application" /\ result'.success)
            => applications'[result'.target].notes = 1
    ]_vars

\* ---------------------------------------------------------------- C38
\* the request was answered with a failure: an HTTP error status of chat or
\* of stream_chat, or a stream that ended with the error event
Failed(rq) ==
    /\ rq.pc = "done"
    /\ \/ rq.status \in {404, 500}
       \/ (rq.events # <<>> /\ rq.events[Len(rq.events)] = "error")

\* C38: a request that failed has left the stored messages as they were
\* before it: with one request on an empty session, none is stored.
C38_FailedRequestStoresNothing ==
    \A r \in Requests : Failed(req[r]) => bot_messages = <<>>

\* ---------------------------------------------------------------- C31
\* the roles alternate and the first one is user
Alternates(messages) ==
    /\ \A i \in 1..(Len(messages) - 1) :
          messages[i].role # messages[i + 1].role
    /\ messages # <<>> => messages[1].role = "user"

\* two neighbours share a role, or the first message is an assistant one
Malformed(messages) ==
    \/ \E i \in 1..(Len(messages) - 1) :
          messages[i].role = messages[i + 1].role
    \/ (messages # <<>> /\ messages[1].role = "assistant")

\* C31 as stated: what prepare_for_api returns alternates and starts with
\* user, and it raises when the messages it is given, formatted and with the
\* new user message appended, have two neighbours of one role or start with
\* an assistant message.
C31_AsStated ==
    history_call.op = "prepare_for_api"
    => LET c == history_call
           given == Prepared(c.messages, c.new_user_message, FALSE,
                             c.max_tokens)
       IN  /\ ~c.raised => Alternates(c.output)
           /\ Malformed(given) => c.raised

\* C31 as amended: what prepare_for_api returns alternates and starts with
\* user, and it raises when the messages left by the truncation (if
\* auto_truncate is set), formatted and with the new user message appended,
\* have two neighbours of one role or start with an assistant message.
C31_PreparedAlternates ==
    history_call.op = "prepare_for_api"
    => LET c == history_call
           validated == Prepared(c.messages, c.new_user_message,
                                 c.auto_truncate, c.max_tokens)
       IN  /\ ~c.raised => (Alternates(c.output) /\ c.output = validated)
           /\ Malformed(validated) => (c.raised /\ c.output = <<>>)

\* reached: two user messages in a row, without truncation, were refused
C31_Witness ==
    /\ history_call.op = "prepare_for_api"
    /\ history_call.raised
    /\ ~history_call.auto_truncate
    /\ Len(history_call.messages) = 2
    /\ history_call.messages[1].role = "user"
    /\ history_call.messages[2].role = "user"
    /\ history_call.new_user_message = None

\* ---------------------------------------------------------------- C32, C33
\* C32: truncate_to_fit returns a suffix of its input, the same messages in
\* the same order without a gap, that holds at least the keep_most_recent
\* latest messages, or the whole input when that is shorter, and returns
\* the input itself when its estimated size is within the budget.
C32_TruncationKeepsSuffix ==
    history_call.op = "truncate_to_fit"
    => LET c == history_call
           n == Len(c.messages)
           kept == Len(c.output)
       IN  /\ kept <= n
           /\ c.output = SubSeq(c.messages, n - kept + 1, n)
           /\ kept >= (IF c.keep < n THEN c.keep ELSE n)
           /\ total_chars(c.messages)
                 < TOKENS_PER_MESSAGE_ESTIMATE * (c.max_tokens + 1)
              => c.output = c.messages

\* reached: a history over the budget lost its oldest message and kept the
\* two latest ones and one more
C32_Witness ==
    /\ history_call.op = "truncate_to_fit"
    /\ history_call.keep = 2
    /\ Len(history_call.messages) = keep_most_recent + 2
    /\ Len(history_call.output) = keep_most_recent + 1

\* C33: when the estimated size of the history exceeds the budget, the
\* estimated size of what truncate_to_fit returns does not.
C33_TruncationWithinBudget ==
    (/\ history_call.op = "truncate_to_fit"
     /\ total_chars(history_call.messages)
           >= TOKENS_PER_MESSAGE_ESTIMATE * (history_call.max_tokens + 1))
    => total_chars(history_call.output)
          < TOKENS_PER_MESSAGE_ESTIMATE * (history_call.max_tokens + 1)

\* ---------------------------------------------------------------- C39
\* C39: prepare_for_api with auto-truncation and a new user message returns
\* for every history that alternates, starts with a user message and ends
\* with an assistant message.
C39_TruncationPreservesValidity ==
    (/\ history_call.op = "prepare_for_api"
     /\ history_call.auto_truncate
     /\ history_call.new_user_message = "q"
     /\ history_call.messages # <<>>
     /\ \A i \in DOMAIN history_call.messages :
           history_call.messages[i].role =
              (IF i % 2 = 1 THEN "user" ELSE "assistant")
     /\ Len(history_call.messages) % 2 = 0)
    => ~history_call.raised

\* ---------------------------------------------------------------- C40
\* C40: when chat or stream_chat has loaded the history and turns to the
\* LLM, the latest stored message of the session is among the messages
\* loaded and among those the conversation context is built from.
C40_ContextRecency ==
    \A r \in Requests :
       req[r].pc \in {"model", "stream"}
       => LET rows == SessionRows(req[r].session_id)
          IN  rows # <<>>
              => /\ rows[Len(rows)] \in Range(req[r].history)
                 /\ rows[Len(rows)] \in Range(req[r].context)
====
